---- MODULE Spec2Model ----
(***************************************************************************)
(* State-machine model of the iyzico payment provider for Odoo:            *)
(* checkout-session rendering, the callback controller, the gateway        *)
(* request helper and the reconciliation of gateway results.               *)
(*                                                                         *)
(* Python dicts are functions whose DOMAIN is the set of keys present;     *)
(* None / False field values are the string None; messages are sequences   *)
(* of string parts (a formatted message keeps its arguments as parts).     *)
(* Times are seconds.  An unset Datetime field is the empty set, a set one *)
(* is the singleton of its value.  `callers` holds the local state of the  *)
(* requests that run concurrently; it is empty where requests run one at   *)
(* a time.                                                                 *)
(***************************************************************************)
EXTENDS Integers, Sequences, FiniteSets, TLC

VARIABLES provider, txs, now, issued, last, arg, ret, callers

vars == <<provider, txs, now, issued, last, arg, ret, callers>>

(***************************************************************************)
(* Bounds of the model.                                                    *)
(***************************************************************************)
MaxTokens == 2
MaxTime == 1500
MaxRefunds == 1

\* the instants at which the clock is sampled
Instants == {0, 1200, 1500}
TxRefs == {"S0001"}

\* longest generated text input
MaxLen == 3

\* amounts are numbers of 10^-AmountDigits
AmountDigits == 3
TokenNames == <<"T1", "T2", "T3", "T4">>
PaymentNames == <<"P1", "P2", "P3", "P4">>

(***************************************************************************)
(* Python helpers.                                                         *)
(***************************************************************************)
None == "None"

Truthy(v) == v # None /\ v # ""

Or(a, b) == IF Truthy(a) THEN a ELSE b

get(d, k, default) == IF k \in DOMAIN d THEN d[k] ELSE default

EmptyDict == [k \in {} |-> None]

WithOpt(S, k, Vals) == S \cup { (k :> v) @@ d : d \in S, v \in Vals }

(***************************************************************************)
(* const.py (messages of ERROR_CODES in ASCII transliteration)             *)
(***************************************************************************)
ENDPOINT_CHECKOUT_FORM_INIT == "/payment/iyzipos/checkoutform/initialize/auth/ecom"
ENDPOINT_CHECKOUT_FORM_RETRIEVE == "/payment/iyzipos/checkoutform/auth/ecom/detail"

ENDPOINT_REFUND == "/payment/refund"
ENDPOINT_BIN_CHECK == "/payment/bin/check"

API_URL_SANDBOX == "https://sandbox-api.iyzipay.com"
API_URL_PRODUCTION == "https://api.iyzipay.com"

CHECKOUT_URL_SANDBOX == "https://sandbox-cpp.iyzipay.com"
CHECKOUT_URL_PRODUCTION == "https://cpp.iyzipay.com"

CURRENCY_DECIMALS ==
    [ TRY |-> 2, EUR |-> 2, USD |-> 2, GBP |-> 2, IRR |-> 0,
      NOK |-> 2, RUB |-> 2, CHF |-> 2 ]

LOCALE_MAPPING == [tr_TR |-> "tr", en_US |-> "en", en_GB |-> "en", ar_001 |-> "en"]

DEFAULT_LOCALE == "tr"

STATUS_MAPPING ==
    [ draft      |-> <<"INIT_THREEDS", "CALLBACK_THREEDS">>,
      pending    |-> <<"CALLBACK_THREEDS">>,
      authorized |-> << >>,
      done       |-> <<"SUCCESS", "success">>,
      cancel     |-> <<"FAILURE", "failure">>,
      error      |-> <<"FAILURE", "failure">> ]

ERROR_CODES ==
    [ c \in {"10005", "10012", "10051", "10054", "10084", "10201", "10000"} |->
        CASE c = "10005" -> "Islem onaylanmadi. Lutfen bankanizla iletisime gecin. (Transaction not approved)"
          [] c = "10012" -> "Gecersiz kart numarasi. Lutfen kartinizi kontrol edin. (Invalid card number)"
          [] c = "10051" -> "Kartinizda yetersiz bakiye bulunmaktadir. (Insufficient funds)"
          [] c = "10054" -> "Kartinizin suresi dolmus. Lutfen baska bir kart kullanin. (Expired card)"
          [] c = "10084" -> "CVC2 bilgisi hatali. (Invalid CVC2)"
          [] c = "10201" -> "3D Secure dogrulamasi basarisiz. (3D Secure authentication failed)"
          [] c = "10000" -> "Islem sirasinda bir hata olustu. Lutfen tekrar deneyin. (General transaction error)" ]

(***************************************************************************)
(* utils.py                                                                *)
(***************************************************************************)
get_checkout_url(prov) ==
    IF prov.state = "enabled" THEN CHECKOUT_URL_PRODUCTION ELSE CHECKOUT_URL_SANDBOX

get_error_message(error_code) ==
    IF error_code \in DOMAIN ERROR_CODES
    THEN <<ERROR_CODES[error_code]>>
    ELSE <<"Payment failed with error code: ", error_code>>

\* hmac.new(key, msg, sha256).hexdigest(): an injective keyed digest
Hmac(key, msg) == <<"hmac-sha256", key, msg>>

\* str.upper() on the status strings the gateway domain contains
upper(s) ==
    CASE s \in {"success", "Success", "SUCCESS"} -> "SUCCESS"
      [] s \in {"failure", "Failure", "FAILURE"} -> "FAILURE"
      [] s \in {"callback_threeds", "CALLBACK_THREEDS"} -> "CALLBACK_THREEDS"
      [] s \in {"init_threeds", "INIT_THREEDS"} -> "INIT_THREEDS"
      [] s \in {"bogus_status", "BOGUS_STATUS"} -> "BOGUS_STATUS"
      [] OTHER -> s

InTuple(s, t) == \E i \in DOMAIN t : t[i] = s

\* lines 230-238
get_locale(lang_code) == get(LOCALE_MAPPING, lang_code, DEFAULT_LOCALE)

\* str[i:]: the characters of s from the i-th on
From(s, i) == SubSeq(s, i, Len(s))

startswith(s, prefix) == Len(s) >= Len(prefix) /\ SubSeq(s, 1, Len(prefix)) = prefix

Digits == {"0", "1", "2", "3", "4", "5", "6", "7", "8", "9"}

RECURSIVE isdigit(_)
isdigit(s) ==
    /\ Len(s) > 0
    /\ SubSeq(s, 1, 1) \in Digits
    /\ Len(s) > 1 => isdigit(From(s, 2))

\* variant without the rounding, against which C20 is tested
truncated(n, unit) == n \div unit

\* the nearest multiple of unit, of two equally near the even one: what the
\* 'f' presentation type yields for a float that holds n exactly
rounded(n, unit) ==
    IF 2 * (n % unit) < unit THEN n \div unit
    ELSE IF 2 * (n % unit) > unit THEN (n \div unit) + 1
    ELSE (n \div unit) + ((n \div unit) % 2)

RECURSIVE Power10(_)
Power10(d) == IF d = 0 THEN 1 ELSE 10 * Power10(d - 1)

RECURSIVE zero_padded(_, _)
zero_padded(n, width) ==
    IF width = 0 THEN ""
    ELSE zero_padded(n \div 10, width - 1) \o ToString(n % 10)

\* f"{amount:.{decimals}f}" of a scaled integer, units of 10^-decimals
fixed_point(negative, scaled, decimals) ==
    (IF negative THEN "-" ELSE "")
    \o ToString(scaled \div Power10(decimals))
    \o (IF decimals = 0 THEN ""
        ELSE "." \o zero_padded(scaled % Power10(decimals), decimals))

\* lines 186-199; an amount is a number of thousandths
format_amount(amount, currency) ==
    fixed_point(amount < 0,
                rounded(IF amount < 0 THEN -amount ELSE amount,
                        Power10(AmountDigits - get(CURRENCY_DECIMALS, currency.name, 2))),
                get(CURRENCY_DECIMALS, currency.name, 2))

\* line 216: the characters of phone that are digits or '+'
RECURSIVE cleaned(_)
cleaned(phone) ==
    IF phone = "" THEN ""
    ELSE (IF SubSeq(phone, 1, 1) \in Digits \cup {"+"} THEN SubSeq(phone, 1, 1) ELSE "")
         \o cleaned(From(phone, 2))

\* lines 219-225
with_country_code(digits) ==
    IF startswith(digits, "+") THEN digits
    ELSE IF startswith(digits, "0") THEN "+9" \o digits
    ELSE "+90" \o digits

\* lines 202-227
format_phone(phone) ==
    IF ~Truthy(phone) THEN "+905000000000" ELSE with_country_code(cleaned(phone))

(***************************************************************************)
(* models/payment_provider.py: the gateway request helper.  `out` is what  *)
(* the gateway and the network do with the request: a JSON response, a     *)
(* connection failure, a timeout or a body that is not JSON.  The result   *)
(* tells whether ValidationError was raised, its message, the response and *)
(* the HTTP requests that were sent.                                       *)
(***************************************************************************)
Raise(msg, sent) ==
    [raised |-> TRUE, exc |-> "ValidationError", error |-> msg, data |-> EmptyDict,
     http |-> sent]

\* variant that checks the API key only, against which C12 is tested
api_key_missing(prov) == ~Truthy(prov.iyzico_api_key)

\* line 339
credentials_missing(prov) ==
    ~Truthy(prov.iyzico_api_key) \/ ~Truthy(prov.iyzico_secret_key)

\* variant without the handlers of lines 408-413, against which C13 is tested
transport_error_unhandled(kind, sent) ==
    [raised |-> TRUE, exc |-> kind, error |-> << >>, data |-> EmptyDict, http |-> sent]

\* lines 408-413
transport_error(kind, sent) ==
    IF kind = "connection_error"
    THEN Raise(<<"Could not connect to iyzico. Please try again later.">>, sent)
    ELSE Raise(<<"iyzico request timed out. Please try again.">>, sent)

_iyzico_make_request(prov, endpoint, payload, out) ==
    IF credentials_missing(prov)
    THEN Raise(<<"iyzico API credentials are not configured.">>, << >>)
    ELSE CASE out.kind \in {"connection_error", "timeout"} ->
                transport_error(out.kind, <<[endpoint |-> endpoint, payload |-> payload]>>)
           [] out.kind = "invalid_json" ->
                Raise(<<"Invalid response from iyzico. Please try again.">>,
                      <<[endpoint |-> endpoint, payload |-> payload]>>)
           [] out.kind = "response" ->
                IF get(out.data, "status", None) # "success"
                THEN Raise(<<"iyzico Error (", get(out.data, "errorCode", "unknown"), "): ",
                             get(out.data, "errorMessage", "Unknown error")>>,
                           <<[endpoint |-> endpoint, payload |-> payload]>>)
                ELSE [raised |-> FALSE, exc |-> None, error |-> << >>, data |-> out.data,
                      http |-> <<[endpoint |-> endpoint, payload |-> payload]>>]

\* str.lstrip('/')
RECURSIVE lstrip(_)
lstrip(s) == IF startswith(s, "/") THEN lstrip(From(s, 2)) ELSE s

\* json.dumps and base64.b64encode: injective encodings
Json(payload) == <<"json", payload>>

b64encode(text) == <<"base64", text>>

\* line 349
with_conversation_id(payload, random_key) ==
    IF "conversationId" \in DOMAIN payload THEN payload
    ELSE [conversationId |-> random_key] @@ payload

\* lines 343-352: the request body, the empty text for an empty payload
request_body(payload, random_key) ==
    IF payload = EmptyDict THEN << >>
    ELSE Json(with_conversation_id(payload, random_key))

\* variant: the body as line 343 has it, against which C14 is tested
body_before_conversation_id(payload, random_key) ==
    IF payload = EmptyDict THEN << >> ELSE Json(payload)

\* the value of request_body at line 359, where it is signed
body_at_signing(payload, random_key) == request_body(payload, random_key)

\* the value of request_body at line 375, where it is sent
body_at_sending(payload, random_key) == request_body(payload, random_key)

\* line 355
uri_path_of(endpoint) == "/" \o lstrip(endpoint)

\* variant that leaves the body out of the signature, against which C23 is
\* tested
authorization_header_without_body(api_key, secret_key, random_key, uri_path, body) ==
    <<"IYZWSv2 ",
      b64encode(<<"apiKey:", api_key, "&randomKey:", random_key, "&signature:",
                  Hmac(secret_key, <<random_key, uri_path>>)>>)>>

\* utils.py lines 68-115
generate_authorization_header(api_key, secret_key, random_key, uri_path, body) ==
    <<"IYZWSv2 ",
      b64encode(<<"apiKey:", api_key, "&randomKey:", random_key, "&signature:",
                  Hmac(secret_key, <<random_key, uri_path, body>>)>>)>>

\* utils.py lines 20-30
get_api_url(prov) ==
    IF prov.state = "enabled" THEN API_URL_PRODUCTION ELSE API_URL_SANDBOX

\* lines 331-379: the HTTP request the helper sends, random_key being the
\* key uuid4 gave it
build_request(prov, endpoint, payload, random_key) ==
    [url |-> get_api_url(prov) \o uri_path_of(endpoint),
     data |-> body_at_sending(payload, random_key),
     headers |->
        [Authorization |-> generate_authorization_header(
                               prov.iyzico_api_key, prov.iyzico_secret_key, random_key,
                               uri_path_of(endpoint),
                               body_at_signing(payload, random_key)),
         Accept |-> "application/json"]
        @@ ("Content-Type" :> "application/json")
        @@ ("x-iyzi-rnd" :> random_key)]

\* int() of a Selection value; the unset field is False, and int(False) is 0
RECURSIVE int(_)
int(v) ==
    IF ~Truthy(v) THEN 0
    ELSE 10 * int(SubSeq(v, 1, Len(v) - 1))
         + (CHOOSE n \in 0..9 : ToString(n) = From(v, Len(v)))

\* variant that ignores iyzico_enable_installments, against which C22 is tested
enabled_installments_always(prov) ==
    <<1>> \o SelectSeq(<<2, 3, 6, 9, 12>>,
                       LAMBDA count : count <= int(prov.iyzico_max_installments))

\* lines 443-450
enabled_installments(prov) ==
    <<1>> \o (IF prov.iyzico_enable_installments
              THEN SelectSeq(<<2, 3, 6, 9, 12>>,
                             LAMBDA count : count <= int(prov.iyzico_max_installments))
              ELSE << >>)

\* lines 418-565: of the payload, the fields the properties are about
_iyzico_create_checkout_form(prov, tx_values, out) ==
    _iyzico_make_request(prov, ENDPOINT_CHECKOUT_FORM_INIT,
                         [conversationId |-> tx_values.reference,
                          basketId |-> tx_values.reference,
                          enabledInstallments |-> enabled_installments(prov)], out)

_iyzico_retrieve_checkout_result(prov, token, out) ==
    _iyzico_make_request(prov, ENDPOINT_CHECKOUT_FORM_RETRIEVE,
                         [locale |-> "tr", token |-> token], out)

\* lines 591-617; the conversationId is the one the helper would draw
_iyzico_create_refund(prov, payment_id, amount, currency, out) ==
    _iyzico_make_request(prov, ENDPOINT_REFUND,
                         [locale |-> "tr", paymentId |-> payment_id,
                          price |-> format_amount(amount, currency),
                          currency |-> currency.name, ip |-> "127.0.0.1"], out)

\* lines 619-695
_iyzico_bin_check(prov, bin_number, out) ==
    IF ~Truthy(bin_number) \/ Len(bin_number) # 6
    THEN Raise(<<"BIN number must be exactly 6 digits. Provided: ", bin_number>>, << >>)
    ELSE IF ~isdigit(bin_number)
    THEN Raise(<<"BIN number must contain only digits. Provided: ", bin_number>>, << >>)
    ELSE _iyzico_make_request(prov, ENDPOINT_BIN_CHECK,
                              [locale |-> "tr", binNumber |-> bin_number], out)

\* the events one gateway operation adds to the trace of a handler, and the
\* gateway outcome it consumed
CallTrace(name, r) ==
    <<<<name, "call">>>>
    \o (IF r.http # << >> THEN <<<<name, "http_request">>>> ELSE << >>)
    \o <<<<name, IF r.raised THEN "raise" ELSE "return">>>>

Consumed(r, out) == IF r.http # << >> THEN <<out>> ELSE << >>

(***************************************************************************)
(* models/payment_transaction.py: reconciliation of a gateway result.      *)
(* The host primitives _set_done / _set_error / _set_pending are applied   *)
(* as the state and state_message they request.                            *)
(***************************************************************************)
Processed(tx, target, msg, t0, gw0) ==
    [tx |-> [tx EXCEPT !.state = target, !.state_message = msg],
     raised |-> FALSE, error |-> << >>,
     trace |-> t0 \o <<<<"tx", "write">>, <<"tx", target>>>>, gw |-> gw0]

\* variant without the upper-casing, against which C6 is tested
normalize_as_received(payment_status) ==
    IF Truthy(payment_status) THEN payment_status ELSE ""

\* line 371
normalize(payment_status) ==
    IF Truthy(payment_status) THEN upper(payment_status) ELSE ""

\* variant preferring errorMessage over errorCode, against which C9 is tested
error_reason_message_first(error_code, error_message) ==
    IF Truthy(error_message) THEN <<error_message>>
    ELSE IF Truthy(error_code) THEN get_error_message(error_code)
    ELSE <<"Payment failed.">>

\* lines 384-385: the message given to _set_error
error_reason(error_code, error_message) ==
    IF Truthy(error_code) THEN get_error_message(error_code)
    ELSE IF Truthy(error_message) THEN <<error_message>>
    ELSE <<"Payment failed.">>

\* variant calling _set_error, against which C7 is tested
unknown_status_as_error(tx, payment_status, t0, gw0) ==
    Processed(tx, "error",
              <<"Payment status: ", payment_status, ". Please check iyzico panel.">>,
              t0, gw0)

\* lines 409-418: a status no entry of the table holds
unknown_status(tx, payment_status, t0, gw0) ==
    Processed(tx, "pending",
              <<"Payment status: ", payment_status, ". Please check iyzico panel.">>,
              t0, gw0)

\* lines 369-418: the transition the normalized status selects
classify(tx, payment_status, normalized_status, error_code, error_message, t0, gw0) ==
    IF InTuple(normalized_status, STATUS_MAPPING["done"])
    THEN Processed(tx, "done", << >>, t0, gw0)
    ELSE IF InTuple(normalized_status, STATUS_MAPPING["error"])
    THEN Processed(tx, "error", error_reason(error_code, error_message), t0, gw0)
    ELSE IF InTuple(normalized_status, STATUS_MAPPING["pending"])
    THEN Processed(tx, "pending", <<"3D Secure authentication in progress.">>, t0, gw0)
    ELSE IF InTuple(normalized_status, STATUS_MAPPING["draft"])
    THEN Processed(tx, "pending", <<"Payment initialization in progress.">>, t0, gw0)
    ELSE unknown_status(tx, payment_status, t0, gw0)

\* lines 330-367: the fields written before the transition
write_metadata(tx, payment_status, payment_id, installment) ==
    [tx EXCEPT !.iyzico_installment = installment,
               !.iyzico_3ds_status = payment_status,
               !.provider_reference = IF Truthy(payment_id) THEN payment_id ELSE @]

\* lines 330-418, on the notification data as completed by lines 322-328
reconcile(tx, nd, t0, gw0) ==
    classify(write_metadata(tx,
                            Or(get(nd, "paymentStatus", None), get(nd, "status", None)),
                            get(nd, "paymentId", None),
                            get(nd, "installment", 1)),
             Or(get(nd, "paymentStatus", None), get(nd, "status", None)),
             normalize(Or(get(nd, "paymentStatus", None), get(nd, "status", None))),
             get(nd, "errorCode", None), get(nd, "errorMessage", None), t0, gw0)

\* lines 324-328 once the retrieve call has ended with r
update_with_result(tx, notification_data, r, out) ==
    IF r.raised
    THEN [tx |-> tx, raised |-> TRUE, error |-> r.error,
          trace |-> CallTrace("retrieve", r), gw |-> Consumed(r, out)]
    ELSE reconcile(tx, r.data @@ notification_data, CallTrace("retrieve", r),
                   Consumed(r, out))

_process_notification_data(tx, prov, notification_data, out) ==
    IF /\ "paymentStatus" \notin DOMAIN notification_data
       /\ Truthy(get(notification_data, "token", None))
    THEN update_with_result(
             tx, notification_data,
             _iyzico_retrieve_checkout_result(
                 prov, get(notification_data, "token", None), out),
             out)
    ELSE reconcile(tx, notification_data, << >>, << >>)

(***************************************************************************)
(* models/payment_transaction.py: rendering values of a transaction.  A    *)
(* URL is its part before '?' and its query as a sequence of <<key,value>>.*)
(***************************************************************************)
TOKEN_EXPIRE_DEFAULT == 1800
BUFFER_TIME == 300

NoUrl == [base |-> "", query |-> << >>]

\* urllib.parse.parse_qs followed by values[0]: blank values are dropped,
\* of a repeated key the first value is kept
UrlParams(query) ==
    LET Keys == { query[i][1] : i \in { j \in DOMAIN query : query[j][2] # "" } }
        First(k) == CHOOSE i \in DOMAIN query :
                        /\ query[i][1] = k /\ query[i][2] # ""
                        /\ \A j \in 1..(i - 1) : ~(query[j][1] = k /\ query[j][2] # "")
    IN  [k \in Keys |-> query[First(k)][2]]

\* lines 222-252
rendering_values(payment_page_url) ==
    IF payment_page_url = NoUrl
    THEN [api_url |-> "", error |-> <<"Odeme sayfasi yuklenemedi.">>]
    ELSE [api_url |-> payment_page_url.base,
          url_params |-> UrlParams(payment_page_url.query)]

\* lines 159-171
should_refresh(tx, clock) ==
    ~(/\ tx.iyzico_token_expire_time # {}
      /\ Truthy(tx.provider_reference)
      /\ \E t \in tx.iyzico_token_expire_time : t > clock + BUFFER_TIME)

\* variant that keeps a token already stored, against which C11 is tested
store_token_if_unset(tx, clock, token, token_expire_seconds) ==
    IF Truthy(token) /\ ~Truthy(tx.provider_reference)
    THEN [tx EXCEPT !.provider_reference = token,
                    !.iyzico_token_expire_time = {clock + token_expire_seconds}]
    ELSE tx

\* lines 177-184
store_token(tx, clock, token, token_expire_seconds) ==
    IF Truthy(token)
    THEN [tx EXCEPT !.provider_reference = token,
                    !.iyzico_token_expire_time = {clock + token_expire_seconds}]
    ELSE tx

\* variant that drops the stored session when the init call fails, against
\* which C29 is tested
refresh_forgetting_session(tx, clock, r, out) ==
    IF r.raised
    THEN [tx |-> [tx EXCEPT !.state = "error", !.state_message = r.error,
                            !.provider_reference = None,
                            !.iyzico_token_expire_time = {}],
          values |-> [api_url |-> "", error |-> r.error],
          trace |-> CallTrace("init", r) \o <<<<"tx", "error">>>>,
          gw |-> Consumed(r, out), reused |-> FALSE]
    ELSE [tx |-> store_token(tx, clock, get(r.data, "token", None),
                             get(r.data, "tokenExpireTime", TOKEN_EXPIRE_DEFAULT)),
          values |-> rendering_values(get(r.data, "paymentPageUrl", NoUrl)),
          trace |-> CallTrace("init", r)
                    \o (IF Truthy(get(r.data, "token", None))
                        THEN <<<<"tx", "store_token">>>> ELSE << >>),
          gw |-> Consumed(r, out), reused |-> FALSE]

\* lines 173-191 and 202-220 once the init call has ended with r
refresh(tx, clock, r, out) ==
    IF r.raised
    THEN [tx |-> [tx EXCEPT !.state = "error", !.state_message = r.error],
          values |-> [api_url |-> "", error |-> r.error],
          trace |-> CallTrace("init", r) \o <<<<"tx", "error">>>>,
          gw |-> Consumed(r, out), reused |-> FALSE]
    ELSE [tx |-> store_token(tx, clock, get(r.data, "token", None),
                             get(r.data, "tokenExpireTime", TOKEN_EXPIRE_DEFAULT)),
          values |-> rendering_values(get(r.data, "paymentPageUrl", NoUrl)),
          trace |-> CallTrace("init", r)
                    \o (IF Truthy(get(r.data, "token", None))
                        THEN <<<<"tx", "store_token">>>> ELSE << >>),
          gw |-> Consumed(r, out), reused |-> FALSE]

\* lines 192-200
reuse(tx, prov) ==
    [tx |-> tx,
     values |-> rendering_values(
                    [base |-> get_checkout_url(prov),
                     query |-> <<<<"token", tx.provider_reference>>, <<"lang", "tr">>>>]),
     trace |-> << >>, gw |-> << >>, reused |-> TRUE]

_get_specific_rendering_values(tx, prov, clock, out) ==
    IF should_refresh(tx, clock)
    THEN refresh(tx, clock,
                 _iyzico_create_checkout_form(prov, [reference |-> tx.reference], out), out)
    ELSE reuse(tx, prov)

(***************************************************************************)
(* controllers/main.py: the callback controller.                           *)
(***************************************************************************)
\* AccessDenied is raised when the X-Iyzico-Signature header is present (an
\* absent header is the empty sequence) and is not the digest of the token
\* under the secret key (an unset secret key fails in encode() and is denied
\* as well)
_verify_webhook_signature(signature_header, token, prov) ==
    \/ signature_header = << >>
    \/ /\ Truthy(prov.iyzico_secret_key)
       /\ signature_header = Hmac(prov.iyzico_secret_key, token)

\* search([('provider_reference', '=', token), ...], limit=1)
search(store, token) ==
    LET found == { ref \in DOMAIN store : store[ref].provider_reference = token }
    IN  IF found = {} THEN {}
        ELSE {CHOOSE ref \in found : \A other \in found : store[ref].id >= store[other].id}

Rejected(store, redirect, trace, gw, ref) ==
    [txs |-> store, redirect |-> redirect, trace |-> trace, gw |-> gw, ref |-> ref]

\* lines 183-193 once _handle_notification_data has ended with p
handled(store, ref, p, t0, gw0) ==
    IF p.raised
    THEN Rejected(store, "/payment/status?error=processing_error",
                  t0 \o p.trace, gw0 \o p.gw, ref)
    ELSE [txs |-> [store EXCEPT ![ref] = p.tx], redirect |-> "/payment/status",
          trace |-> t0 \o p.trace, gw |-> gw0 \o p.gw, ref |-> ref]

\* variant spreading the POST body into the data, against which C3 is tested
notification_data_from_post(tx, post_data, payment_result) ==
    payment_result @@ post_data @@ [reference |-> tx.reference]

\* lines 176-180: {'token': token, 'reference': tx_sudo.reference, **payment_result}
notification_data(tx, post_data, payment_result) ==
    payment_result @@ [token |-> get(post_data, "token", None),
                       reference |-> tx.reference]

\* variant calling _set_error on the failure, against which C1 is tested
processing_error_set_error(store, ref, r, t0, gw0) ==
    [txs |-> [store EXCEPT ![ref].state = "error", ![ref].state_message = r.error],
     redirect |-> "/payment/status?error=processing_error",
     trace |-> t0 \o CallTrace("retrieve", r) \o <<<<"tx", "error">>>>,
     gw |-> gw0, ref |-> ref]

\* lines 185-187: ValidationError raised by the retrieve call
processing_error(store, ref, r, t0, gw0) ==
    Rejected(store, "/payment/status?error=processing_error",
             t0 \o CallTrace("retrieve", r), gw0, ref)

\* lines 168-193 once the retrieve call has ended with r
retrieved(store, prov, ref, post_data, r, out1, out2, t0) ==
    IF r.raised
    THEN processing_error(store, ref, r, t0, Consumed(r, out1))
    ELSE handled(store, ref,
                 _process_notification_data(
                     store[ref], prov, notification_data(store[ref], post_data, r.data),
                     out2),
                 t0 \o CallTrace("retrieve", r), Consumed(r, out1))

\* lines 139-193 once the search has ended with found
searched(store, prov, found, post_data, signature_header, out1, out2) ==
    IF found = {}
    THEN Rejected(store, "/payment/status?error=transaction_not_found",
                  <<<<"tx", "search">>>>, << >>, None)
    ELSE IF ~_verify_webhook_signature(signature_header, get(post_data, "token", None), prov)
    THEN Rejected(store, "/payment/status?error=invalid_signature",
                  <<<<"tx", "search">>, <<"signature", "verify">>>>, << >>,
                  CHOOSE ref \in found : TRUE)
    ELSE retrieved(store, prov, CHOOSE ref \in found : TRUE, post_data,
                   _iyzico_retrieve_checkout_result(
                       prov, get(post_data, "token", None), out1),
                   out1, out2, <<<<"tx", "search">>, <<"signature", "verify">>>>)

\* variant without the check of lines 128-130, against which C2 is tested
iyzico_callback_no_token_check(store, prov, post_data, signature_header, out1, out2) ==
    searched(store, prov, search(store, get(post_data, "token", None)),
             post_data, signature_header, out1, out2)

\* lines 122-193
iyzico_callback(store, prov, post_data, signature_header, out1, out2) ==
    IF ~Truthy(get(post_data, "token", None))
    THEN Rejected(store, "/payment/status?error=missing_token", << >>, << >>, None)
    ELSE searched(store, prov, search(store, get(post_data, "token", None)),
                  post_data, signature_header, out1, out2)

(***************************************************************************)
(* The environment: the gateway and the network.  The gateway issues the   *)
(* session tokens T1, T2, ... in order, one per successful init, and names *)
(* the payment of session Ti Pi.                                           *)
(***************************************************************************)
Responses(S) == { [kind |-> "response", data |-> d] : d \in S }

IssuedTokens == { TokenNames[i] : i \in 1..issued }

\* what the state machine meets: one transport failure, one body that is not
\* JSON and one business error stand for their kinds
Failures ==
    {[kind |-> "timeout"], [kind |-> "invalid_json"]}
    \cup Responses({[status |-> "failure", errorCode |-> "10051",
                     errorMessage |-> "Insufficient funds"]})

PageUrl(token) == [base |-> CHECKOUT_URL_SANDBOX, query |-> <<<<"token", token>>>>]

InitTable ==
    [i \in DOMAIN TokenNames |->
        Failures
        \cup Responses(WithOpt(
                {[status |-> "success", token |-> TokenNames[i],
                  paymentPageUrl |-> PageUrl(TokenNames[i])]},
                "tokenExpireTime", {500}))]

InitOutcomes(i) == InitTable[i]

RetrieveTable ==
    [i \in DOMAIN TokenNames |->
        Failures
        \cup Responses(
                 WithOpt(WithOpt(
                     {[status |-> "success"]},
                     "paymentStatus", {"SUCCESS", "FAILURE"}),
                     "paymentId", {PaymentNames[i]}))]

UnknownToken == Failures

\* a token the gateway never issued is answered with an error
RetrieveOutcomes(token) ==
    IF \E i \in 1..issued : TokenNames[i] = token
    THEN RetrieveTable[CHOOSE i \in 1..issued : TokenNames[i] = token]
    ELSE UnknownToken

NoOutcome == [kind |-> "none"]

\* the tokens of the callbacks the model sends: every value the gateway has
\* handed out, an empty one and one the gateway never issued
CallbackTokens == IssuedTokens \cup { PaymentNames[i] : i \in 1..issued } \cup {"", "TX"}

PostBodies == {EmptyDict} \cup { [token |-> t] : t \in CallbackTokens }

SignatureHeaders(token) == {<< >>, Hmac("sk", token), Hmac("forged", token)}

(***************************************************************************)
(* The state machine.                                                      *)
(***************************************************************************)
NewTx(n, ref) ==
    [id |-> n, reference |-> ref, provider_reference |-> None,
     iyzico_token_expire_time |-> {}, state |-> "draft", state_message |-> << >>,
     iyzico_installment |-> 1, iyzico_3ds_status |-> None]

\* the installment fields have their defaults (payment_provider.py:54-72)
Providers ==
    { [iyzico_api_key |-> k, iyzico_secret_key |-> "sk", state |-> "test",
       iyzico_enable_installments |-> TRUE, iyzico_max_installments |-> "12"] :
        k \in {"ak", None} }

\* `last` describes the most recent request: the handler, the transaction
\* it worked on, the token the request carried, what it returned, the trace
\* of its steps and the gateway outcomes it consumed
Idle == [op |-> "none", ref |-> None, token |-> None, result |-> EmptyDict,
         trace |-> << >>, gw |-> << >>, reused |-> FALSE]

Init ==
    /\ provider \in Providers
    /\ txs = [ref \in TxRefs |-> NewTx(IF ref = "S0001" THEN 1 ELSE 2, ref)]
    /\ now = 0
    /\ issued = 0
    /\ last = Idle
    /\ arg = << >>
    /\ ret = << >>
    /\ callers = << >>

\* the gateway mints the next token when it answers an init request with one
Minted(v, out) == v.gw # << >> /\ out.kind = "response" /\ "token" \in DOMAIN out.data

Rendered(ref, v, out) ==
    /\ Minted(v, out) => issued < MaxTokens
    /\ txs' = [txs EXCEPT ![ref] = v.tx]
    /\ issued' = IF Minted(v, out) THEN issued + 1 ELSE issued
    /\ last' = [op |-> "render", ref |-> ref, token |-> None, result |-> v.values,
                trace |-> v.trace, gw |-> v.gw, reused |-> v.reused]
    /\ UNCHANGED <<provider, now, arg, ret, callers>>

Render(ref) ==
    \E out \in InitOutcomes(issued + 1) :
        Rendered(ref, _get_specific_rendering_values(txs[ref], provider, now, out), out)

CalledBack(c, token) ==
    /\ txs' = c.txs
    /\ last' = [op |-> "callback", ref |-> c.ref, token |-> token,
                result |-> [redirect |-> c.redirect],
                trace |-> c.trace, gw |-> c.gw, reused |-> FALSE]

\* the gateway outcomes are drawn only for the requests the handler sends:
\* a callback that is rejected before the retrieve call meets no outcome
Callback ==
    \E post_data \in PostBodies :
    \E signature_header \in SignatureHeaders(get(post_data, "token", None)) :
    \E out1 \in IF /\ search(txs, get(post_data, "token", None)) # {}
                   /\ _verify_webhook_signature(
                          signature_header, get(post_data, "token", None), provider)
                THEN RetrieveOutcomes(get(post_data, "token", None))
                ELSE {NoOutcome} :
    \E out2 \in IF out1.kind = "response" /\ "paymentStatus" \notin DOMAIN out1.data
                THEN RetrieveOutcomes(get(post_data, "token", None))
                ELSE {NoOutcome} :
        /\ CalledBack(iyzico_callback(txs, provider, post_data, signature_header,
                                      out1, out2),
                      get(post_data, "token", None))
        /\ UNCHANGED <<provider, now, issued, arg, ret, callers>>

Tick ==
    \E t \in Instants :
        /\ now < t /\ t <= MaxTime
        /\ now' = t
        /\ last' = Idle
        /\ UNCHANGED <<provider, txs, issued, arg, ret, callers>>

Next ==
    \/ \E ref \in TxRefs : Render(ref)
    \/ Callback
    \/ Tick

Spec == Init /\ [][Next]_vars

(***************************************************************************)
(* The callback handler on inputs drawn at the start: a POST body, a       *)
(* signature header and the gateway's answers, applied once to a store     *)
(* that renders have filled.  `ret` keeps the store the handler found and  *)
(* what it returned.                                                       *)
(***************************************************************************)
CallbackOutcomes ==
    Failures
    \cup Responses(WithOpt(WithOpt({[status |-> "success"]},
                                   "paymentStatus", {"SUCCESS", "FAILURE"}),
                           "paymentId", {"P1"}))

CallbackArgs ==
    { [post_data |-> p, signature_header |-> h, out1 |-> o1, out2 |-> o2] :
        p \in WithOpt({EmptyDict, [token |-> ""], [token |-> "T1"], [token |-> "TX"]},
                      "paymentStatus", {"SUCCESS"}),
        h \in {<< >>, Hmac("forged", "T1")},
        o1 \in CallbackOutcomes,
        o2 \in CallbackOutcomes \cup {NoOutcome} }

\* every POST body that carries the same token as p
SameToken(p) ==
    WithOpt(WithOpt(WithOpt(WithOpt(
        {[k \in DOMAIN p \cap {"token"} |-> p[k]]},
        "status", {"success", "failure"}),
        "paymentStatus", {"SUCCESS", "FAILURE"}),
        "paymentId", {"P9"}),
        "conversationId", {"S0001", "S0009"})

InitCallback ==
    /\ provider \in Providers
    /\ txs = [ref \in TxRefs |-> NewTx(1, ref)]
    /\ now = 0
    /\ issued = 0
    /\ last = Idle
    /\ arg \in CallbackArgs
    /\ (arg.out2 = NoOutcome) =
           ~(arg.out1.kind = "response" /\ "paymentStatus" \notin DOMAIN arg.out1.data)
    /\ ret = << >>
    /\ callers = << >>

RenderBefore ==
    /\ ret = << >>
    /\ \E ref \in TxRefs : Render(ref)

CallbackOnce ==
    /\ ret = << >>
    /\ CalledBack(iyzico_callback(txs, provider, arg.post_data, arg.signature_header,
                                  arg.out1, arg.out2),
                  get(arg.post_data, "token", None))
    /\ ret' = <<[store |-> txs, redirect |-> last'.result.redirect]>>
    /\ UNCHANGED <<provider, now, issued, arg, callers>>

NextCallback == RenderBefore \/ CallbackOnce

SpecCallback == InitCallback /\ [][NextCallback]_vars

(***************************************************************************)
(* Reconciliation on inputs drawn at the start: notification data and the  *)
(* gateway's answer to the retrieve call reconciliation makes when the     *)
(* data carry a token and no paymentStatus, applied once to a draft        *)
(* transaction.  `ret` keeps what _process_notification_data produced.     *)
(***************************************************************************)
StatusStrings ==
    {"SUCCESS", "success", "Success", "FAILURE", "failure", "Failure",
     "CALLBACK_THREEDS", "INIT_THREEDS", "BOGUS_STATUS", "bogus_status"}

ReconcileData ==
    WithOpt(WithOpt(WithOpt(WithOpt(WithOpt(WithOpt(
        {EmptyDict, [token |-> "T1"]},
        "paymentStatus", StatusStrings),
        "status", {"success", "failure"}),
        "errorCode", {"10051", "99999"}),
        "errorMessage", {"Insufficient funds"}),
        "installment", {-1, 0, 1, 6}),
        "paymentId", {"P1"})

ReconcileOutcomes ==
    Failures
    \cup Responses(WithOpt(WithOpt({[status |-> "success"]},
                                   "paymentStatus", {"SUCCESS", "failure", "BOGUS_STATUS"}),
                           "installment", {0, 3}))

InitReconcile ==
    /\ provider \in Providers
    /\ txs = [ref \in TxRefs |-> NewTx(1, ref)]
    /\ now = 0
    /\ issued = 0
    /\ last = Idle
    /\ arg \in { [nd |-> d, out |-> o] :
                    d \in ReconcileData, o \in ReconcileOutcomes \cup {NoOutcome} }
    /\ (arg.out = NoOutcome) =
           ~("paymentStatus" \notin DOMAIN arg.nd /\ "token" \in DOMAIN arg.nd)
    /\ ret = << >>
    /\ callers = << >>

Reconciled(ref, p) ==
    /\ ret' = <<p>>
    /\ txs' = IF p.raised THEN txs ELSE [txs EXCEPT ![ref] = p.tx]
    /\ last' = [op |-> "reconcile", ref |-> ref, token |-> get(arg.nd, "token", None),
                result |-> EmptyDict, trace |-> p.trace, gw |-> p.gw, reused |-> FALSE]

ReconcileOnce ==
    /\ ret = << >>
    /\ \E ref \in TxRefs :
           Reconciled(ref, _process_notification_data(txs[ref], provider, arg.nd, arg.out))
    /\ UNCHANGED <<provider, now, issued, arg, callers>>

NextReconcile == ReconcileOnce

SpecReconcile == InitReconcile /\ [][NextReconcile]_vars

(***************************************************************************)
(* Two requests render the same transaction concurrently.  Each request    *)
(* runs _get_specific_rendering_values in three steps: the decision of     *)
(* lines 159-171, the init call of line 175 and the writes of lines        *)
(* 177-184 with the return of lines 222-252; the steps of the two requests *)
(* interleave freely, the code takes no lock.  `ret` lists the requests in *)
(* the order in which they wrote the token.                                *)
(***************************************************************************)
Callers == {"A", "B"}

RaceRef == "S0001"

InitRace ==
    /\ provider \in Providers
    /\ txs = [ref \in TxRefs |-> NewTx(1, ref)]
    /\ now \in Instants
    /\ issued = 0
    /\ last = Idle
    /\ arg = << >>
    /\ ret = << >>
    /\ callers = [c \in Callers |->
                     [pc |-> "start", out |-> NoOutcome, values |-> EmptyDict]]

\* lines 159-171 and, when the stored token is reused, lines 192-252
RaceDecide(c) ==
    /\ callers[c].pc = "start"
    /\ callers' = [callers EXCEPT ![c] =
           IF should_refresh(txs[RaceRef], now)
           THEN [@ EXCEPT !.pc = "init"]
           ELSE [@ EXCEPT !.pc = "done", !.values = reuse(txs[RaceRef], provider).values]]
    /\ UNCHANGED <<provider, txs, now, issued, last, arg, ret>>

\* line 175 and, when the call raises, lines 202-220; v is what the handler
\* would do were it to run on alone, of which only the failure is taken here
RaceCalled(c, v, r, out) ==
    /\ issued' = IF Minted(v, out) THEN issued + 1 ELSE issued
    /\ txs' = IF r.raised THEN [txs EXCEPT ![RaceRef] = v.tx] ELSE txs
    /\ callers' = [callers EXCEPT ![c] =
           IF r.raised
           THEN [@ EXCEPT !.pc = "done", !.values = v.values,
                          !.out = IF r.http = << >> THEN NoOutcome ELSE out]
           ELSE [@ EXCEPT !.pc = "store", !.out = out]]

RaceInit(c) ==
    /\ callers[c].pc = "init"
    /\ \E out \in InitOutcomes(issued + 1) :
           RaceCalled(c, refresh(txs[RaceRef], now,
                                 _iyzico_create_checkout_form(
                                     provider, [reference |-> RaceRef], out),
                                 out),
                      _iyzico_create_checkout_form(
                          provider, [reference |-> RaceRef], out),
                      out)
    /\ UNCHANGED <<provider, now, last, arg, ret>>

\* lines 177-184 and 222-252
RaceStore(c) ==
    /\ callers[c].pc = "store"
    /\ txs' = [txs EXCEPT ![RaceRef] =
                  store_token(@, now, get(callers[c].out.data, "token", None),
                              get(callers[c].out.data, "tokenExpireTime",
                                  TOKEN_EXPIRE_DEFAULT))]
    /\ ret' = IF Truthy(get(callers[c].out.data, "token", None))
              THEN Append(ret, c) ELSE ret
    /\ callers' = [callers EXCEPT ![c] =
           [@ EXCEPT !.pc = "done",
                     !.values = rendering_values(
                                    get(callers[c].out.data, "paymentPageUrl", NoUrl))]]
    /\ UNCHANGED <<provider, now, issued, last, arg>>

RaceStep(c) == RaceDecide(c) \/ RaceInit(c) \/ RaceStore(c)

NextRace == \E c \in Callers : RaceStep(c)

SpecRace == InitRace /\ [][NextRace]_vars

(***************************************************************************)
(* models/payment_transaction.py: refunds.  A refund of a transaction adds *)
(* a refund transaction to the store, as the inherited method creates it,  *)
(* and asks the gateway to refund the payment that provider_reference      *)
(* names.  Every transaction has the amount TxAmount in TxCurrency.        *)
(***************************************************************************)
TxAmount == 100000
TxCurrency == [name |-> "TRY"]

RefundRefs == <<"R-S0001", "R-S0001-1", "R-S0001-2">>

Refunds(store) == Cardinality(DOMAIN store) - Cardinality(TxRefs)

\* line 432: the refund transaction the inherited method creates
refund_created(store) ==
    (RefundRefs[Refunds(store) + 1]
        :> NewTx(Cardinality(DOMAIN store) + 1, RefundRefs[Refunds(store) + 1]))
    @@ store

\* lines 454-466 once the refund call has ended with r
refund_requested(store, rref, r, out) ==
    [txs |-> IF r.raised
             THEN [store EXCEPT ![rref].state = "error", ![rref].state_message = r.error]
             ELSE [store EXCEPT ![rref].state = "done",
                                ![rref].provider_reference = get(r.data, "paymentId", None)],
     raised |-> r.raised, error |-> r.error, http |-> r.http,
     trace |-> <<<<"tx", "create_refund">>>> \o CallTrace("refund", r),
     gw |-> Consumed(r, out), refund |-> rref]

\* lines 420-466
_send_refund_request(store, prov, ref, amount_to_refund, out) ==
    IF ~Truthy(store[ref].provider_reference)
    THEN [txs |-> refund_created(store), raised |-> TRUE,
          error |-> <<"Cannot refund: No iyzico payment reference found for transaction ",
                      ref, ".">>,
          http |-> << >>, trace |-> <<<<"tx", "create_refund">>>>, gw |-> << >>,
          refund |-> RefundRefs[Refunds(store) + 1]]
    ELSE refund_requested(
             refund_created(store), RefundRefs[Refunds(store) + 1],
             _iyzico_create_refund(prov, store[ref].provider_reference,
                                   IF amount_to_refund # 0 THEN amount_to_refund
                                   ELSE TxAmount,
                                   TxCurrency, out),
             out)

\* the gateway refunds the payments it knows and answers every other
\* paymentId with an error
RefundOutcomes(payment_id) ==
    IF payment_id \in { PaymentNames[i] : i \in 1..issued }
    THEN Failures \cup Responses(WithOpt({[status |-> "success"]}, "paymentId", {payment_id}))
    ELSE Failures

Refunded(ref, f) ==
    /\ txs' = f.txs
    /\ last' = [op |-> "refund", ref |-> ref, token |-> None,
                result |-> [refund |-> f.refund, raised |-> f.raised, http |-> f.http],
                trace |-> f.trace, gw |-> f.gw, reused |-> FALSE]

RefundTx(ref) ==
    /\ Refunds(txs) < MaxRefunds
    /\ \E amount_to_refund \in {0, 50000} :
       \E out \in RefundOutcomes(txs[ref].provider_reference) :
           Refunded(ref, _send_refund_request(txs, provider, ref, amount_to_refund, out))
    /\ UNCHANGED <<provider, now, issued, arg, ret, callers>>

NextRefund ==
    \/ \E ref \in TxRefs : Render(ref)
    \/ Callback
    \/ \E ref \in TxRefs : RefundTx(ref)

SpecRefund == Init /\ [][NextRefund]_vars

(***************************************************************************)
(* The gateway operations of models/payment_provider.py, each invoked once *)
(* on a provider whose credentials are set, unset or empty.  `arg` names   *)
(* the operation and holds its arguments, the outcome the gateway and the  *)
(* network have for the request and the random key uuid4 returns; `ret`    *)
(* receives the result and the HTTP requests that were sent.               *)
(***************************************************************************)
GatewayProviders ==
    { [iyzico_api_key |-> k, iyzico_secret_key |-> sk, state |-> "test",
       iyzico_enable_installments |-> TRUE, iyzico_max_installments |-> "12"] :
        k \in {"ak", None, ""}, sk \in {"sk", None, ""} }

GatewayOutcomes ==
    {[kind |-> "connection_error"], [kind |-> "timeout"], [kind |-> "invalid_json"]}
    \cup Responses({[status |-> "success"],
                    [status |-> "failure", errorCode |-> "10051",
                     errorMessage |-> "Insufficient funds"],
                    [errorMessage |-> "Could not connect to iyzico. Please try again later."]})

RandomKeys == {"0123456789abcdef", "fedcba9876543210"}

BinNumbers == {"589004", "58900", "58900x", "", None}

\* endpoints with one, no and two leading slashes, payloads with and without
\* conversationId and the empty payload
HelperEndpoints == {ENDPOINT_REFUND, "payment/refund", "//payment/bin/check"}

HelperPayloads ==
    {EmptyDict, [locale |-> "tr"], [locale |-> "tr", conversationId |-> "S0001"]}

GatewayArgs ==
    { [op |-> "init", reference |-> ref] : ref \in TxRefs }
    \cup { [op |-> "retrieve", token |-> t] : t \in {"T1"} }
    \cup { [op |-> "refund", payment_id |-> pid, amount |-> m, currency |-> c] :
              pid \in {"P1"}, m \in {100000}, c \in {[name |-> "TRY"]} }
    \cup { [op |-> "bin_check", bin_number |-> b] : b \in BinNumbers }
    \cup { [op |-> "request", endpoint |-> e, payload |-> d] :
              e \in HelperEndpoints, d \in HelperPayloads }

InitGateway ==
    /\ provider \in GatewayProviders
    /\ txs = [ref \in TxRefs |-> NewTx(1, ref)]
    /\ now = 0
    /\ issued = 0
    /\ last = Idle
    /\ arg \in { a @@ [out |-> o, random_key |-> k] :
                    a \in GatewayArgs, o \in GatewayOutcomes, k \in RandomKeys }
    /\ ret = << >>
    /\ callers = << >>

\* the result r of the operation and the requests that went out for it
GatewayCalled(r) ==
    /\ ret = << >>
    /\ ret' = <<[r |-> r,
                 sent |-> [j \in DOMAIN r.http |->
                              build_request(provider, r.http[j].endpoint,
                                            r.http[j].payload, arg.random_key)]]>>
    /\ UNCHANGED <<provider, txs, now, issued, last, arg, callers>>

CheckoutInit ==
    /\ arg.op = "init"
    /\ GatewayCalled(_iyzico_create_checkout_form(
                         provider, [reference |-> arg.reference], arg.out))

ResultRetrieval ==
    /\ arg.op = "retrieve"
    /\ GatewayCalled(_iyzico_retrieve_checkout_result(provider, arg.token, arg.out))

Refund ==
    /\ arg.op = "refund"
    /\ GatewayCalled(_iyzico_create_refund(provider, arg.payment_id, arg.amount,
                                           arg.currency, arg.out))

BinCheck ==
    /\ arg.op = "bin_check"
    /\ GatewayCalled(_iyzico_bin_check(provider, arg.bin_number, arg.out))

MakeRequest ==
    /\ arg.op = "request"
    /\ GatewayCalled(_iyzico_make_request(provider, arg.endpoint, arg.payload, arg.out))

NextGateway == CheckoutInit \/ ResultRetrieval \/ Refund \/ BinCheck \/ MakeRequest

SpecGateway == InitGateway /\ [][NextGateway]_vars

(***************************************************************************)
(* utils.py: the records written by log_api_request and log_api_response   *)
(* (sanitize=True, as every call has it).  A payload is a JSON tree, held  *)
(* as the function from the paths of its leaves to their values: the leaf  *)
(* 'identityNumber' of the dict 'buyer' is at <<"buyer","identityNumber">>.*)
(***************************************************************************)
MASKED == "***MASKED***"

\* line 434
REQUEST_SENSITIVE_FIELDS == {"apiKey", "secretKey", "cardNumber", "cardCvv", "identityNumber"}

\* line 470
RESPONSE_SENSITIVE_FIELDS == {"checkoutFormContent", "token", "cardNumber"}

\* safe[field] = mask[field] for the top-level fields of the payload that
\* mask names: the whole value of the field is replaced
WithMasked(payload, mask) ==
    [p \in { q \in DOMAIN payload : q[1] \notin DOMAIN mask }
           \cup { <<q[1]>> : q \in { r \in DOMAIN payload : r[1] \in DOMAIN mask } } |->
        IF p[1] \in DOMAIN mask THEN mask[p[1]] ELSE payload[p]]

\* lines 435-437
request_mask == [field \in REQUEST_SENSITIVE_FIELDS |-> MASKED]

\* lines 439-443: safe_payload['buyer'] is the buyer dict of the payload itself
buyer_masked(safe_payload) ==
    [p \in DOMAIN safe_payload |->
        IF p = <<"buyer", "identityNumber">> THEN MASKED ELSE safe_payload[p]]

\* lines 430-443
log_api_request(payload) == buyer_masked(WithMasked(payload, request_mask))

\* lines 432, 439-443: the caller's payload once the call has returned.
\* payload.copy() is shallow, so the assignments of lines 435-437 rebind keys
\* of the copy only, while safe_payload['buyer'] is the caller's buyer dict
\* and line 442 assigns into it
payload_after_log(payload) == buyer_masked(payload)

\* lines 471-479
response_mask(response_data) ==
    [field \in RESPONSE_SENSITIVE_FIELDS |->
        IF field = "token" /\ <<"token">> \in DOMAIN response_data
                           /\ Len(response_data[<<"token">>]) > 20
        THEN SubSeq(response_data[<<"token">>], 1, 20) \o "..."
        ELSE IF field = "checkoutFormContent" THEN "***HTML_CONTENT***"
        ELSE MASKED]

\* lines 465-479
log_api_response(response_data) ==
    WithMasked(response_data, response_mask(response_data))

(***************************************************************************)
(* models/payment_provider.py: the providers offered on a website.         *)
(* `candidates` are the providers the inherited selection returns, each    *)
(* with its code and the set of its iyzico_website_ids.                    *)
(***************************************************************************)
\* lines 127-146: the parameter, else the context, else the request
detected_website(website_id, context_website_id, request_website_id) ==
    IF website_id # None THEN website_id
    ELSE IF context_website_id # None THEN context_website_id
    ELSE request_website_id

\* lines 152-175
website_filter(candidates, website_id) ==
    IF Truthy(website_id)
    THEN { q \in candidates : \/ q.code # "iyzico"
                              \/ q.iyzico_website_ids = {}
                              \/ website_id \in q.iyzico_website_ids }
    ELSE { q \in candidates : q.code # "iyzico" \/ q.iyzico_website_ids = {} }

\* lines 89-180
_get_compatible_providers(candidates, website_id, context_website_id, request_website_id) ==
    website_filter(candidates,
                   detected_website(website_id, context_website_id, request_website_id))

(***************************************************************************)
(* The functions of utils.py and the provider selection, each applied once *)
(* to an input drawn from a bounded set.  `arg` names the function and     *)
(* holds its arguments, `ret` receives the result.                         *)
(***************************************************************************)
RECURSIVE Texts(_, _)
Texts(alphabet, n) ==
    IF n = 0 THEN {""}
    ELSE Texts(alphabet, n - 1)
         \cup { t \o c : t \in Texts(alphabet, n - 1), c \in alphabet }

Phones ==
    Texts({"0", "5", "+", " ", "-"}, MaxLen)
    \cup {None, "0555 123 45 67", "+90 555 123 4567", "5551234567", "0555+1234567",
          "(0555) 123-45-67", "abc"}

Currencies == { [name |-> n] : n \in {"TRY", "EUR", "IRR", "XXX"} }

\* thousandths whose float is on no rounding boundary, or is on it exactly
\* (eighths and halves), so that the result does not depend on the binary
\* expansion of the float
Amounts ==
    {0, 1, 4, 6, 125, 375, 500, 994, 996, 1500, 2500, 10000, 99994, 99996, 99999,
     100000, 123450, 123456, -1500, -99999}

\* payment page URLs: up to two parameters, keys repeated and values empty
PageUrls ==
    { [base |-> CHECKOUT_URL_SANDBOX, query |-> q] :
        q \in { <<<<"token", "T1">>>> }
              \cup { <<<<"token", "T1">>, <<k, v>>>> :
                        k \in {"token", "lang"}, v \in {"", "tr", "T1"} }
              \cup { <<<<"lang", v>>, <<"token", "T1">>>> : v \in {"", "tr"} } }

Path(k) == <<k>>

RequestPayloads ==
    WithOpt(WithOpt(WithOpt(WithOpt(WithOpt(
        {Path("locale") :> "tr"},
        Path("identityNumber"), {"11111111111"}),
        Path("cardNumber"), {"4111111111111111"}),
        <<"buyer", "identityNumber">>, {"11111111111"}),
        <<"paymentCard", "cardNumber">>, {"4111111111111111"}),
        <<"paymentCard", "cardCvv">>, {"123"})

ResponsePayloads ==
    WithOpt(WithOpt(WithOpt(WithOpt(
        {Path("status") :> "success"},
        Path("token"), {"T1", "0123456789abcdef0123456789abcdef"}),
        Path("cardNumber"), {"4111111111111111"}),
        Path("identityNumber"), {"11111111111"}),
        Path("checkoutFormContent"), {"<form/>"})

Websites == {"w1", "w2"}

\* one other provider and iyzico providers of every website selection
WebsiteSelections == <<{}, {"w1"}, {"w2"}, {"w1", "w2"}>>

Candidates ==
    SUBSET ({[id |-> 1, code |-> "stripe", iyzico_website_ids |-> {}]}
            \cup { [id |-> j + 1, code |-> "iyzico",
                    iyzico_website_ids |-> WebsiteSelections[j]] :
                      j \in DOMAIN WebsiteSelections })

\* configured providers with every setting of the installment fields
InstallmentProviders ==
    { [iyzico_api_key |-> "ak", iyzico_secret_key |-> "sk", state |-> "test",
       iyzico_enable_installments |-> e, iyzico_max_installments |-> m] :
        e \in BOOLEAN, m \in {"1", "3", "6", "9", "12", None} }

SignerArgs ==
    { [fn |-> "generate_authorization_header", api_key |-> k, secret_key |-> sk,
       random_key |-> rk, uri_path |-> u, request_body |-> b] :
        k \in {"ak", "sandbox-ak", ""}, sk \in {"sk", "sandbox-sk"},
        rk \in {"0123456789abcdef", "1722246017090123456789"},
        u \in {ENDPOINT_BIN_CHECK, ENDPOINT_REFUND},
        b \in {"", "{\"binNumber\":\"589004\"}", "{\"binNumber\":\"589005\"}"} }

LangCodes == {"tr_TR", "en_US", "en_GB", "ar_001", "ar_SA", "de_DE", ""}

UtilArgs ==
    { [fn |-> "format_phone", phone |-> ph] : ph \in Phones }
    \cup { [fn |-> "get_locale", lang_code |-> l] : l \in LangCodes }
    \cup SignerArgs
    \cup { [fn |-> "_iyzico_create_checkout_form", prov |-> q, reference |-> ref,
             out |-> o] :
              q \in InstallmentProviders, ref \in TxRefs,
              o \in {[kind |-> "timeout"]} \cup Responses({[status |-> "success"]}) }
    \cup { [fn |-> "format_amount", amount |-> m, currency |-> c] :
              m \in Amounts, c \in Currencies }
    \cup { [fn |-> "rendering_values", payment_page_url |-> u] : u \in PageUrls }
    \cup { [fn |-> "log_api_request", payload |-> d] : d \in RequestPayloads }
    \cup { [fn |-> "log_api_response", response_data |-> d] : d \in ResponsePayloads }
    \cup { [fn |-> "_get_compatible_providers", candidates |-> c, website_id |-> w,
             context_website_id |-> cw, request_website_id |-> rw] :
              c \in Candidates, w \in Websites \cup {None},
              cw \in {None, "w2"}, rw \in {None, "w1"} }

InitUtils ==
    /\ provider \in Providers
    /\ txs = [ref \in TxRefs |-> NewTx(1, ref)]
    /\ now = 0
    /\ issued = 0
    /\ last = Idle
    /\ arg \in UtilArgs
    /\ ret = << >>
    /\ callers = << >>

FormatPhone ==
    /\ ret = << >>
    /\ arg.fn = "format_phone"
    /\ ret' = <<format_phone(arg.phone)>>
    /\ UNCHANGED <<provider, txs, now, issued, last, arg, callers>>

FormatAmount ==
    /\ ret = << >>
    /\ arg.fn = "format_amount"
    /\ ret' = <<format_amount(arg.amount, arg.currency)>>
    /\ UNCHANGED <<provider, txs, now, issued, last, arg, callers>>

\* payment_transaction.py lines 222-252 on the URL the init call returned
RenderingValues ==
    /\ ret = << >>
    /\ arg.fn = "rendering_values"
    /\ ret' = <<rendering_values(arg.payment_page_url)>>
    /\ UNCHANGED <<provider, txs, now, issued, last, arg, callers>>

LogRequest ==
    /\ ret = << >>
    /\ arg.fn = "log_api_request"
    /\ ret' = <<log_api_request(arg.payload)>>
    /\ last' = [Idle EXCEPT !.op = "log_api_request",
                            !.result = payload_after_log(arg.payload)]
    /\ UNCHANGED <<provider, txs, now, issued, arg, callers>>

LogResponse ==
    /\ ret = << >>
    /\ arg.fn = "log_api_response"
    /\ ret' = <<log_api_response(arg.response_data)>>
    /\ UNCHANGED <<provider, txs, now, issued, last, arg, callers>>

CompatibleProviders ==
    /\ ret = << >>
    /\ arg.fn = "_get_compatible_providers"
    /\ ret' = <<_get_compatible_providers(arg.candidates, arg.website_id,
                                          arg.context_website_id,
                                          arg.request_website_id)>>
    /\ UNCHANGED <<provider, txs, now, issued, last, arg, callers>>

GetLocale ==
    /\ ret = << >>
    /\ arg.fn = "get_locale"
    /\ ret' = <<get_locale(arg.lang_code)>>
    /\ UNCHANGED <<provider, txs, now, issued, last, arg, callers>>

CheckoutForm ==
    /\ ret = << >>
    /\ arg.fn = "_iyzico_create_checkout_form"
    /\ ret' = <<_iyzico_create_checkout_form(
                    arg.prov, [reference |-> arg.reference], arg.out)>>
    /\ UNCHANGED <<provider, txs, now, issued, last, arg, callers>>

Sign ==
    /\ ret = << >>
    /\ arg.fn = "generate_authorization_header"
    /\ ret' = <<generate_authorization_header(arg.api_key, arg.secret_key, arg.random_key,
                                              arg.uri_path, arg.request_body)>>
    /\ UNCHANGED <<provider, txs, now, issued, last, arg, callers>>

NextUtils ==
    \/ FormatPhone
    \/ Sign
    \/ CheckoutForm
    \/ GetLocale
    \/ FormatAmount
    \/ RenderingValues
    \/ LogRequest
    \/ LogResponse
    \/ CompatibleProviders

SpecUtils == InitUtils /\ [][NextUtils]_vars

(***************************************************************************)
(* models/payment_provider.py: verification of the credentials.  An        *)
(* administrator edits the API key and the secret key of the provider and  *)
(* runs the connection test; the gateway accepts the pair ValidKeys and    *)
(* rejects every other pair.  `ret` holds the most recent connection test: *)
(* the credentials it ran with and whether it succeeded.  All providers    *)
(* here have the code iyzico.                                              *)
(***************************************************************************)
TEST_BIN == "552879"

ApiKeys == {"ak", "ak-old", None}

SecretKeys == {"sk", "sk-old", None}

ValidKeys == [iyzico_api_key |-> "ak", iyzico_secret_key |-> "sk"]

\* lines 81-86: a Boolean field is False until it is written
VerifyProviders ==
    { [iyzico_api_key |-> k, iyzico_secret_key |-> sk, state |-> "test",
       iyzico_enable_installments |-> TRUE, iyzico_max_installments |-> "12",
       iyzico_api_verified |-> FALSE] :
        k \in ApiKeys, sk \in SecretKeys }

Notification(prov, type, r) == [prov |-> prov, type |-> type, tested |-> TRUE, r |-> r]

\* lines 807-883 once the BIN check has ended with r
connection_tested(prov, r) ==
    IF r.raised
    THEN Notification([prov EXCEPT !.iyzico_api_verified = FALSE], "danger", r)
    ELSE Notification([prov EXCEPT !.iyzico_api_verified = TRUE], "success", r)

\* lines 767-883
action_iyzico_test_connection(prov, out) ==
    IF ~Truthy(prov.iyzico_api_key) \/ ~Truthy(prov.iyzico_secret_key)
    THEN [prov |-> prov, type |-> "danger", tested |-> FALSE,
          r |-> Raise(<<"Please configure your API Key and Secret Key first.">>, << >>)]
    ELSE connection_tested(prov, _iyzico_bin_check(prov, TEST_BIN, out))

\* what the BIN check meets
TestOutcomes(prov) ==
    {[kind |-> "connection_error"], [kind |-> "timeout"]}
    \cup (IF prov.iyzico_api_key = ValidKeys.iyzico_api_key
             /\ prov.iyzico_secret_key = ValidKeys.iyzico_secret_key
          THEN Responses({[status |-> "success", bankName |-> "Bank"]})
          ELSE Responses({[status |-> "failure", errorCode |-> "1001",
                           errorMessage |-> "Invalid API key"]}))

InitVerify ==
    /\ provider \in VerifyProviders
    /\ txs = [ref \in TxRefs |-> NewTx(1, ref)]
    /\ now = 0
    /\ issued = 0
    /\ last = Idle
    /\ arg = << >>
    /\ ret = << >>
    /\ callers = << >>

\* the inherited write of the two credential fields (lines 39-51): the
\* module overrides neither write nor an onchange of them
EditCredentials ==
    \E k \in ApiKeys : \E sk \in SecretKeys :
        /\ <<k, sk>> # <<provider.iyzico_api_key, provider.iyzico_secret_key>>
        /\ provider' = [provider EXCEPT !.iyzico_api_key = k, !.iyzico_secret_key = sk]
        /\ last' = [Idle EXCEPT !.op = "edit_credentials"]
        /\ UNCHANGED <<txs, now, issued, arg, ret, callers>>

TestConnection ==
    \E out \in TestOutcomes(provider) :
        LET n == action_iyzico_test_connection(provider, out)
        IN  /\ provider' = n.prov
            /\ last' = [Idle EXCEPT !.op = "test_connection",
                                    !.result = [type |-> n.type, tested |-> n.tested],
                                    !.gw = Consumed(n.r, out)]
            /\ ret' = <<[iyzico_api_key |-> provider.iyzico_api_key,
                         iyzico_secret_key |-> provider.iyzico_secret_key,
                         succeeded |-> n.type = "success"]>>
            /\ UNCHANGED <<txs, now, issued, arg, callers>>

NextVerify == EditCredentials \/ TestConnection

SpecVerify == InitVerify /\ [][NextVerify]_vars

(***************************************************************************)
(* Claims.                                                                 *)
(***************************************************************************)
IsTransition(e) == e[1] = "tx" /\ e[2] \in {"done", "error", "pending"}

\* C1: in a callback that carries a token the transaction is searched by
\* the token first, the retrieve-result call comes after the search, and a
\* state transition is applied (and the store changed) only after a
\* retrieve-result call has returned and no such call has raised.
C1_RetrieveBeforeTransition ==
    [][ (last'.op = "callback" /\ Truthy(last'.token)) =>
          LET tr == last'.trace
          IN  /\ \A i \in DOMAIN tr :
                    tr[i] = <<"retrieve", "call">> =>
                        \E j \in 1..(i - 1) : tr[j] = <<"tx", "search">>
              /\ \A i \in DOMAIN tr :
                    IsTransition(tr[i]) =>
                        /\ \E j \in 1..(i - 1) : tr[j] = <<"retrieve", "return">>
                        /\ \A j \in 1..(i - 1) : tr[j] # <<"retrieve", "raise">>
              /\ txs' # txs =>
                    /\ \E j \in DOMAIN tr : tr[j] = <<"retrieve", "return">>
                    /\ \A j \in DOMAIN tr : tr[j] # <<"retrieve", "raise">> ]_vars

C1_Witness ==
    /\ last.op = "callback" /\ Truthy(last.token)
    /\ \E i \in DOMAIN last.trace : last.trace[i] = <<"tx", "done">>
    /\ \E ref \in TxRefs : txs[ref].state = "done"

\* C2: a callback whose token is missing or empty is redirected to the
\* status page with error=missing_token; it searches no transaction, sends
\* nothing to the gateway and leaves every transaction as it was.
C2_MissingTokenRejected ==
    [][ (last'.op = "callback" /\ ~Truthy(last'.token)) =>
          /\ last'.result.redirect = "/payment/status?error=missing_token"
          /\ last'.trace = << >>
          /\ last'.gw = << >>
          /\ txs' = txs ]_vars

C2_Witness ==
    /\ last.op = "callback" /\ last.token = None
    /\ last.result.redirect = "/payment/status?error=missing_token"
    /\ \E ref \in TxRefs : txs[ref].provider_reference = None

\* C3: the outcome of a callback depends on its POST body through the token
\* only: every body that carries the same token, met by the same gateway
\* answers, leaves the same store and the same redirect.
C3_OnlyTokenTrusted ==
    \A i \in DOMAIN ret :
        \A p \in SameToken(arg.post_data) :
            LET c == iyzico_callback(ret[i].store, provider, p, arg.signature_header,
                                     arg.out1, arg.out2)
            IN  c.txs = txs /\ c.redirect = ret[i].redirect

C3_Witness ==
    /\ ret # << >>
    /\ "paymentStatus" \in DOMAIN arg.post_data
    /\ get(arg.post_data, "token", None) = "T1"
    /\ arg.out1.kind = "response" /\ get(arg.out1.data, "paymentStatus", None) = "FAILURE"
    /\ \E ref \in TxRefs : txs[ref].state = "error"

\* C4: when the gateway answers a call of a callback or of a render with a
\* status other than success, the transaction is in error and its reason is
\* the errorCode resolved through ERROR_CODES, and the request ends with a
\* redirect or rendering values.
C4_BusinessErrorSurfaced ==
    (/\ last.op \in {"callback", "render"}
     /\ last.gw # << >>
     /\ last.gw[Len(last.gw)].kind = "response"
     /\ get(last.gw[Len(last.gw)].data, "status", None) # "success")
    => /\ txs[last.ref].state = "error"
       /\ txs[last.ref].state_message
              = get_error_message(get(last.gw[Len(last.gw)].data, "errorCode", None))
       /\ DOMAIN last.result # {}

C4_Witness ==
    /\ last.op = "callback"
    /\ last.gw # << >>
    /\ last.gw[1].kind = "response"
    /\ get(last.gw[1].data, "status", None) = "failure"
    /\ last.result.redirect = "/payment/status?error=processing_error"
    /\ txs[last.ref].state = "draft"

\* C5: whatever the transactions are, no status string of STATUS_MAPPING
\* stands under two outcome keys.
C5_OneCategoryPerStatus ==
    \A ref \in DOMAIN txs :
        \A k1 \in DOMAIN STATUS_MAPPING : \A k2 \in DOMAIN STATUS_MAPPING :
            k1 # k2 =>
                \A i \in DOMAIN STATUS_MAPPING[k1] :
                    ~InTuple(STATUS_MAPPING[k1][i], STATUS_MAPPING[k2])

C5_Witness ==
    /\ InTuple("FAILURE", STATUS_MAPPING["cancel"])
    /\ InTuple("FAILURE", STATUS_MAPPING["error"])
    /\ last.op = "callback" /\ last.ref \in DOMAIN txs
    /\ txs[last.ref].iyzico_3ds_status = "FAILURE"
    /\ txs[last.ref].state = "error"

\* the gateway response reconciliation works on: the notification data,
\* completed by the result of the retrieve call when one was made
ResponseOf(p) ==
    IF p.gw # << >> /\ ~p.raised THEN p.gw[1].data @@ arg.nd ELSE arg.nd

RawStatus(d) ==
    IF "paymentStatus" \in DOMAIN d THEN d["paymentStatus"] ELSE get(d, "status", None)

InTable(s) == \E k \in DOMAIN STATUS_MAPPING : InTuple(s, STATUS_MAPPING[k])

\* C6: reconciliation classifies by the upper-cased paymentStatus, or status
\* when paymentStatus is absent, with done codes before error codes before
\* pending codes: SUCCESS in any case gives done, FAILURE in any case gives
\* error, CALLBACK_THREEDS gives pending; a response without any status key
\* does not raise (it is left pending); reconciliation raises only when the
\* retrieve call it makes for data without paymentStatus raises.
C6_ClassifiedByUpperCasedStatus ==
    \A i \in DOMAIN ret :
        LET p == ret[i]
            raw == RawStatus(ResponseOf(p))
            st == p.tx.state
        IN  /\ p.raised => \E j \in DOMAIN p.trace : p.trace[j] = <<"retrieve", "raise">>
            /\ (DOMAIN arg.nd \cap {"paymentStatus", "status", "token"} = {}) =>
                   ~p.raised /\ st = "pending"
            /\ ~p.raised =>
                /\ raw \in {"SUCCESS", "success", "Success"} => st = "done"
                /\ raw \in {"FAILURE", "failure", "Failure"} => st = "error"
                /\ raw = "CALLBACK_THREEDS" =>
                       /\ st = "pending"
                       /\ p.tx.state_message = <<"3D Secure authentication in progress.">>
                /\ st = "done" <=> InTuple(upper(raw), STATUS_MAPPING["done"])
                /\ st = "error" <=>
                       /\ ~InTuple(upper(raw), STATUS_MAPPING["done"])
                       /\ InTuple(upper(raw), STATUS_MAPPING["error"])

C6_Witness ==
    /\ ret # << >>
    /\ get(arg.nd, "paymentStatus", None) = "Success"
    /\ get(arg.nd, "status", None) = "failure"
    /\ ~ret[1].raised
    /\ \E ref \in TxRefs : txs[ref].state = "done"

\* C7: a status that no entry of STATUS_MAPPING holds never sets the
\* transaction to error and never raises: the transaction is set to pending
\* with a reason that contains the status as received.
C7_UnknownStatusPending ==
    \A i \in DOMAIN ret :
        LET p == ret[i]
            raw == RawStatus(ResponseOf(p))
        IN  /\ p.raised => p.trace[Len(p.trace)] = <<"retrieve", "raise">>
            /\ (~p.raised /\ Truthy(raw) /\ ~InTable(upper(raw))) =>
                  /\ p.tx.state = "pending"
                  /\ \E j \in DOMAIN p.tx.state_message : p.tx.state_message[j] = raw
                  /\ \A j \in DOMAIN p.trace : p.trace[j] # <<"tx", "error">>

C7_Witness ==
    /\ ret # << >>
    /\ get(arg.nd, "paymentStatus", None) = "bogus_status"
    /\ \E ref \in TxRefs :
           /\ txs[ref].state = "pending"
           /\ txs[ref].state_message
                  = <<"Payment status: ", "bogus_status", ". Please check iyzico panel.">>

\* C8: after reconciliation the recorded installment count is at least 1:
\* an absent, zero or negative installment is recorded as 1, a positive
\* installment as itself.
C8_InstallmentAtLeastOne ==
    \A i \in DOMAIN ret :
        ~ret[i].raised =>
            LET d == ResponseOf(ret[i])
                n == ret[i].tx.iyzico_installment
            IN  /\ n >= 1
                /\ "installment" \notin DOMAIN d => n = 1
                /\ "installment" \in DOMAIN d =>
                       n = IF d["installment"] >= 1 THEN d["installment"] ELSE 1

C8_Witness ==
    /\ ret # << >>
    /\ get(arg.nd, "installment", 1) = 0
    /\ \E ref \in TxRefs : txs[ref].iyzico_installment = 0

\* C9: the reason of a response classified as error is the errorCode
\* resolved through ERROR_CODES when an errorCode is present (a code the
\* table does not hold gives the message that names the code), else the
\* errorMessage as received, else the generic message.
C9_ErrorReasonOrder ==
    \A i \in DOMAIN ret :
        (~ret[i].raised /\ ret[i].tx.state = "error") =>
            LET d == ResponseOf(ret[i])
                msg == ret[i].tx.state_message
            IN  /\ get(d, "errorCode", None) = "10051" =>
                       msg = <<"Kartinizda yetersiz bakiye bulunmaktadir. (Insufficient funds)">>
                /\ get(d, "errorCode", None) = "99999" =>
                       msg = <<"Payment failed with error code: ", "99999">>
                /\ ("errorCode" \in DOMAIN d /\ d["errorCode"] \in DOMAIN ERROR_CODES) =>
                       msg = <<ERROR_CODES[d["errorCode"]]>>
                /\ ("errorCode" \notin DOMAIN d /\ "errorMessage" \in DOMAIN d) =>
                       msg = <<d["errorMessage"]>>
                /\ ("errorCode" \notin DOMAIN d /\ "errorMessage" \notin DOMAIN d) =>
                       msg = <<"Payment failed.">>

C9_Witness ==
    /\ ret # << >>
    /\ get(arg.nd, "paymentStatus", None) = "FAILURE"
    /\ get(arg.nd, "errorCode", None) = "10051"
    /\ get(arg.nd, "errorMessage", None) = "Insufficient funds"
    /\ \E ref \in TxRefs :
           /\ txs[ref].state = "error"
           /\ txs[ref].state_message = <<ERROR_CODES["10051"]>>

\* the token of the session the most recent successful init created
LatestToken == IF issued = 0 THEN None ELSE TokenNames[issued]

\* C10: a render reuses the stored session exactly if a token and an expiry
\* are stored and the expiry is more than 5 minutes after the current time;
\* a reusing render sends nothing to the gateway and presents the token T of
\* the most recent successful init; every other render calls init exactly
\* once, and the session the gateway answers with is stored with expiry
\* now + tokenExpireTime (1800 s when the gateway gives none).
C10_ReuseWhileFresh ==
    [][ last'.op = "render" =>
          LET tx == txs[last'.ref]
              inits == { j \in DOMAIN last'.trace : last'.trace[j] = <<"init", "call">> }
              fresh == /\ Truthy(tx.provider_reference)
                       /\ tx.iyzico_token_expire_time # {}
                       /\ \A t \in tx.iyzico_token_expire_time : t > now + 300
          IN  /\ last'.reused <=> fresh
              /\ last'.reused =>
                    /\ last'.gw = << >> /\ inits = {}
                    /\ txs' = txs
                    /\ last'.result.url_params["token"] = LatestToken
              /\ ~last'.reused =>
                    /\ Cardinality(inits) = 1
                    /\ (issued' = issued + 1) =>
                          /\ txs'[last'.ref].provider_reference = TokenNames[issued']
                          /\ txs'[last'.ref].iyzico_token_expire_time
                                 = {now + get(last'.gw[1].data, "tokenExpireTime", 1800)}
                          /\ last'.result.url_params["token"] = TokenNames[issued'] ]_vars

C10_Witness ==
    /\ last.op = "render" /\ last.reused
    /\ issued = 1
    /\ txs[last.ref].provider_reference = "P1"
    /\ last.result.url_params["token"] = "P1"
(***************************************************************************)
(* C11: when two requests render the same transaction concurrently and     *)
(* both decide to refresh, neither waits for the other (a request that has *)
(* not returned can always take its next step), each request whose init    *)
(* call succeeded returns the checkout URL of its own new session, the two *)
(* sessions differ, and the token stored on the transaction is the token   *)
(* of the request that wrote last.                                         *)
(***************************************************************************)
OwnToken(c) == get(callers[c].out.data, "token", None)

GotSession(c) ==
    /\ callers[c].out.kind = "response"
    /\ get(callers[c].out.data, "status", None) = "success"
    /\ Truthy(OwnToken(c))

C11_LastWriterWins ==
    callers # << >> =>
        /\ \A c \in Callers : callers[c].pc # "done" => ENABLED RaceStep(c)
        /\ \A c \in Callers :
               callers[c].pc = "done" /\ GotSession(c) =>
                   /\ callers[c].values.api_url = CHECKOUT_URL_SANDBOX
                   /\ callers[c].values.url_params = [token |-> OwnToken(c)]
                   /\ OwnToken(c) \in IssuedTokens
        /\ \A c, e \in Callers :
               c # e /\ GotSession(c) /\ GotSession(e) => OwnToken(c) # OwnToken(e)
        /\ ret # << >> => txs[RaceRef].provider_reference = OwnToken(ret[Len(ret)])

\* both refreshed; B, whose session is the newer, wrote first and A last
C11_Witness ==
    /\ callers # << >>
    /\ \A c \in Callers : callers[c].pc = "done"
    /\ ret = <<"B", "A">>
    /\ OwnToken("A") = "T1"
    /\ OwnToken("B") = "T2"
    /\ txs[RaceRef].provider_reference = "T1"

(***************************************************************************)
(* C12: a gateway operation (checkout init, result retrieval, refund, BIN  *)
(* check) on a provider whose API key or secret key is empty sends no HTTP *)
(* request and is not retried; it fails with the configuration error,      *)
(* except that a BIN check of a BIN that is not six digits fails with the  *)
(* error about the BIN, which is checked first.                            *)
(***************************************************************************)
ConfigurationError == <<"iyzico API credentials are not configured.">>

Unconfigured == ~Truthy(provider.iyzico_api_key) \/ ~Truthy(provider.iyzico_secret_key)

WellFormedBin(b) == Truthy(b) /\ Len(b) = 6 /\ isdigit(b)

MalformedBinCheck == arg.op = "bin_check" /\ ~WellFormedBin(arg.bin_number)

C12_NoRequestWithoutCredentials ==
    \A i \in DOMAIN ret :
        Unconfigured =>
            /\ ret[i].r.raised
            /\ ret[i].r.exc = "ValidationError"
            /\ ret[i].r.http = << >>
            /\ ret[i].sent = << >>
            /\ ~MalformedBinCheck => ret[i].r.error = ConfigurationError
            /\ MalformedBinCheck => ret[i].r.error[1] \in
                   {"BIN number must be exactly 6 digits. Provided: ",
                    "BIN number must contain only digits. Provided: "}

\* C12 as stated: every operation on such a provider fails with the
\* configuration error
C12_AlwaysConfigurationError ==
    \A i \in DOMAIN ret :
        Unconfigured =>
            /\ ret[i].r.raised
            /\ ret[i].r.http = << >>
            /\ ret[i].r.error = ConfigurationError

\* a refund on a provider whose secret key is the empty string
C12_Witness ==
    /\ arg.op = "refund"
    /\ provider.iyzico_api_key = "ak"
    /\ provider.iyzico_secret_key = ""
    /\ ret # << >>
    /\ ret[1].r.error = ConfigurationError
    /\ ret[1].sent = << >>

(***************************************************************************)
(* C13: a connection failure or a timeout of a gateway call reaches the    *)
(* caller as ValidationError with a message of its own, which no           *)
(* configuration, protocol or business failure produces, and exactly one   *)
(* HTTP request was sent.                                                  *)
(***************************************************************************)
TransportMessages ==
    {<<"Could not connect to iyzico. Please try again later.">>,
     <<"iyzico request timed out. Please try again.">>}

TransportFailure ==
    /\ arg.out.kind \in {"connection_error", "timeout"}
    /\ ~Unconfigured
    /\ ~MalformedBinCheck

C13_TransportErrorDistinct ==
    \A i \in DOMAIN ret :
        /\ TransportFailure =>
              /\ ret[i].r.raised
              /\ ret[i].r.exc = "ValidationError"
              /\ ret[i].r.error \in TransportMessages
              /\ Len(ret[i].r.http) = 1
              /\ Len(ret[i].sent) = 1
        /\ ~TransportFailure => ret[i].r.error \notin TransportMessages
        /\ ret[i].r.raised => ret[i].r.exc = "ValidationError"
        /\ Len(ret[i].r.http) <= 1

C13_Witness ==
    /\ arg.op = "retrieve"
    /\ arg.out.kind = "timeout"
    /\ ret # << >>
    /\ ret[1].r.raised
    /\ ret[1].r.error = <<"iyzico request timed out. Please try again.">>
    /\ Len(ret[1].sent) = 1

(***************************************************************************)
(* C14: in every request that is sent, the body that was signed is the     *)
(* body that is transmitted, the signed URI path is the endpoint path with *)
(* exactly one leading '/', and the x-iyzi-rnd header carries the random   *)
(* key of the signature and of the Authorization header.                   *)
(***************************************************************************)
\* the text of the Authorization header before its encoding
AuthorizationString(request) == request.headers["Authorization"][2][2]

\* the message <<random_key, uri_path, request_body>> that was signed
SignedMessage(request) == AuthorizationString(request)[6][3]

RequestSigned(request, endpoint) ==
    /\ request.headers["Authorization"][1] = "IYZWSv2 "
    /\ SignedMessage(request)[3] = request.data
    /\ startswith(SignedMessage(request)[2], "/")
    /\ ~startswith(SignedMessage(request)[2], "//")
    /\ lstrip(SignedMessage(request)[2]) = lstrip(endpoint)
    /\ request.url = get_api_url(provider) \o SignedMessage(request)[2]
    /\ request.headers["x-iyzi-rnd"] = SignedMessage(request)[1]
    /\ request.headers["x-iyzi-rnd"] = AuthorizationString(request)[4]
    /\ request.headers["x-iyzi-rnd"] = arg.random_key
    /\ AuthorizationString(request)[6][2] = provider.iyzico_secret_key

IssuedPayments == { PaymentNames[j] : j \in 1..issued }

C15_RefundByPaymentId ==
    last.op = "refund" =>
        /\ \A j \in DOMAIN last.result.http :
               /\ last.result.http[j].endpoint = ENDPOINT_REFUND
               /\ last.result.http[j].payload.paymentId \in IssuedPayments
        /\ ~Truthy(txs[last.ref].provider_reference) => last.result.http = << >>

\* the refund of a paid transaction names the session token T1
C15_Witness ==
    /\ last.op = "refund"
    /\ txs[last.ref].state = "done"
    /\ Len(last.result.http) = 1
    /\ last.result.http[1].payload.paymentId = "T1"

(***************************************************************************)
(* C16: the rendering values carry all query parameters of the             *)
(* paymentPageUrl verbatim: the key/value pairs rebuilt from url_params    *)
(* are the key/value pairs of the URL's query, repeated keys and empty     *)
(* values included.                                                        *)
(***************************************************************************)
QueryPairs(query) == { query[j] : j \in DOMAIN query }

C16_AllQueryParametersKept ==
    \A i \in DOMAIN ret :
        arg.fn = "rendering_values" =>
            /\ ret[i].api_url = arg.payment_page_url.base
            /\ { <<k, ret[i].url_params[k]>> : k \in DOMAIN ret[i].url_params }
                   = QueryPairs(arg.payment_page_url.query)

\* a parameter with an empty value is dropped
C16_Witness ==
    /\ arg.fn = "rendering_values"
    /\ arg.payment_page_url.query = <<<<"token", "T1">>, <<"lang", "">>>>
    /\ ret = <<[api_url |-> CHECKOUT_URL_SANDBOX, url_params |-> [token |-> "T1"]]>>

(***************************************************************************)
(* C17: the record written when an outbound request or its response is     *)
(* logged holds the original value of no denylisted field (apiKey,         *)
(* secretKey, cardNumber, cardCvv, identityNumber), wherever in the        *)
(* payload the field occurs.                                               *)
(***************************************************************************)
Denylist == {"apiKey", "secretKey", "cardNumber", "cardCvv", "identityNumber"}

Leaked(original, logged) ==
    { q \in DOMAIN original \cap DOMAIN logged :
        q[Len(q)] \in Denylist /\ logged[q] = original[q] }

C17_NoDenylistedValueLogged ==
    \A i \in DOMAIN ret :
        /\ arg.fn = "log_api_request" => Leaked(arg.payload, ret[i]) = {}
        /\ arg.fn = "log_api_response" => Leaked(arg.response_data, ret[i]) = {}

\* the card number of a nested paymentCard is logged as it is
C17_Witness ==
    /\ arg.fn = "log_api_request"
    /\ ret # << >>
    /\ Leaked(arg.payload, ret[1]) = {<<"paymentCard", "cardNumber">>}

(***************************************************************************)
(* C18: _get_compatible_providers returns an iyzico provider for a website *)
(* only if the website is among the provider's iyzico_website_ids; an      *)
(* iyzico provider with no website selected is returned for no website,    *)
(* nor when no website is detected.                                        *)
(***************************************************************************)
C18_OnlySelectedWebsites ==
    \A i \in DOMAIN ret :
        arg.fn = "_get_compatible_providers" =>
            \A q \in ret[i] :
                q.code = "iyzico" =>
                    detected_website(arg.website_id, arg.context_website_id,
                                     arg.request_website_id) \in q.iyzico_website_ids

\* an iyzico provider with no website selected is offered on website w1
C18_Witness ==
    /\ arg.fn = "_get_compatible_providers"
    /\ arg.website_id = "w1"
    /\ ret # << >>
    /\ [id |-> 2, code |-> "iyzico", iyzico_website_ids |-> {}] \in ret[1]

(***************************************************************************)
(* C19: every result of format_phone is '+' followed only by digits: all   *)
(* characters other than digits and a leading '+' are stripped; without a  *)
(* leading '+', a leading '0' is replaced by '+90' and otherwise '+90' is  *)
(* prepended; the empty input gives '+905000000000'.                       *)
(***************************************************************************)
C19_PlusThenDigits ==
    \A i \in DOMAIN ret :
        arg.fn = "format_phone" =>
            /\ startswith(ret[i], "+")
            /\ Len(ret[i]) > 1 => isdigit(From(ret[i], 2))

\* a '+' inside the number is kept
C19_Witness ==
    /\ arg.fn = "format_phone"
    /\ arg.phone = "0555+1234567"
    /\ ret = <<"+90555+1234567">>

(***************************************************************************)
(* C20: format_amount writes the amount in fixed point with the decimals   *)
(* registered for the currency, 2 for a currency that is not registered,   *)
(* rounded to the nearest: 100 TRY gives '100.00', 123.45 TRY '123.45',    *)
(* 99.999 TRY '100.00' and 100 IRR '100'.                                  *)
(***************************************************************************)
RECURSIVE ParseInt(_)
ParseInt(s) ==
    IF s = "" THEN 0
    ELSE 10 * ParseInt(SubSeq(s, 1, Len(s) - 1))
         + (CHOOSE n \in 0..9 : ToString(n) = From(s, Len(s)))

Abs(n) == IF n < 0 THEN -n ELSE n

Unsigned(s) == IF startswith(s, "-") THEN From(s, 2) ELSE s

RegisteredDecimals(name) ==
    IF name \in DOMAIN CURRENCY_DECIMALS THEN CURRENCY_DECIMALS[name] ELSE 2

\* s is digits, and with d > 0 a point and exactly d digits after it
IsFixedPoint(s, d) ==
    IF d = 0 THEN isdigit(s)
    ELSE /\ Len(s) >= d + 2
         /\ isdigit(SubSeq(s, 1, Len(s) - d - 1))
         /\ SubSeq(s, Len(s) - d, Len(s) - d) = "."
         /\ isdigit(From(s, Len(s) - d + 1))

\* the number s denotes, in units of 10^-AmountDigits
FixedPointValue(s, d) ==
    IF d = 0 THEN ParseInt(s) * Power10(AmountDigits)
    ELSE (ParseInt(SubSeq(s, 1, Len(s) - d - 1)) * Power10(d)
          + ParseInt(From(s, Len(s) - d + 1))) * Power10(AmountDigits - d)

AmountFormatted(amount, name, s) ==
    /\ IsFixedPoint(Unsigned(s), RegisteredDecimals(name))
    /\ startswith(s, "-") => amount < 0
    /\ 2 * Abs(FixedPointValue(Unsigned(s), RegisteredDecimals(name)) - Abs(amount))
           <= Power10(AmountDigits - RegisteredDecimals(name))
    /\ (amount = 100000 /\ name = "TRY") => s = "100.00"
    /\ (amount = 123450 /\ name = "TRY") => s = "123.45"
    /\ (amount = 99999 /\ name = "TRY") => s = "100.00"
    /\ (amount = 100000 /\ name = "IRR") => s = "100"

C20_FixedPointDecimals ==
    \A i \in DOMAIN ret :
        arg.fn = "format_amount" =>
            AmountFormatted(arg.amount, arg.currency.name, ret[i])

C20_Witness ==
    /\ arg.fn = "format_amount"
    /\ arg.amount = 99999
    /\ arg.currency.name = "TRY"
    /\ ret = <<"100.00">>

(***************************************************************************)
(* C21: get_locale gives 'tr' for 'tr_TR', 'en' for 'en_US', and 'en' for  *)
(* every language code that LOCALE_MAPPING does not hold, such as 'ar_SA'. *)
(***************************************************************************)
C21_LocaleFallbackEnglish ==
    \A i \in DOMAIN ret :
        arg.fn = "get_locale" =>
            /\ arg.lang_code = "tr_TR" => ret[i] = "tr"
            /\ arg.lang_code = "en_US" => ret[i] = "en"
            /\ arg.lang_code \notin DOMAIN LOCALE_MAPPING => ret[i] = "en"

\* the fallback is DEFAULT_LOCALE, 'tr'
C21_Witness ==
    /\ arg.fn = "get_locale"
    /\ arg.lang_code = "ar_SA"
    /\ ret = <<"tr">>

(***************************************************************************)
(* C22: the enabledInstallments of the init request is 1 followed by the   *)
(* counts among 2, 3, 6, 9, 12 up to the provider's maximum when           *)
(* installments are enabled (maximum 6: 1, 2, 3, 6), and is 1 alone when   *)
(* installments are disabled, whatever the maximum.                        *)
(***************************************************************************)
ExpectedInstallments(enabled, maximum) ==
    IF ~enabled THEN <<1>>
    ELSE CASE maximum = "3" -> <<1, 2, 3>>
           [] maximum = "6" -> <<1, 2, 3, 6>>
           [] maximum = "9" -> <<1, 2, 3, 6, 9>>
           [] maximum = "12" -> <<1, 2, 3, 6, 9, 12>>
           [] OTHER -> <<1>>

C22_EnabledInstallments ==
    \A i \in DOMAIN ret :
        arg.fn = "_iyzico_create_checkout_form" =>
            /\ Len(ret[i].http) = 1
            /\ ret[i].http[1].endpoint = ENDPOINT_CHECKOUT_FORM_INIT
            /\ ret[i].http[1].payload.enabledInstallments
                   = ExpectedInstallments(arg.prov.iyzico_enable_installments,
                                          arg.prov.iyzico_max_installments)

C22_Witness ==
    /\ arg.fn = "_iyzico_create_checkout_form"
    /\ ~arg.prov.iyzico_enable_installments
    /\ arg.prov.iyzico_max_installments = "6"
    /\ ret # << >>
    /\ ret[1].http[1].payload.enabledInstallments = <<1>>

(***************************************************************************)
(* C23: the header of generate_authorization_header is 'IYZWSv2 ' followed *)
(* by the base64 encoding of 'apiKey:' apiKey '&randomKey:' randomKey      *)
(* '&signature:' signature, in this order, the signature being the keyed   *)
(* hash of randomKey, uriPath and requestBody under secretKey; the header  *)
(* is a function of these five inputs.                                     *)
(***************************************************************************)
IsBase64(encoded) == Len(encoded) = 2 /\ encoded[1] = "base64"

b64decode(encoded) == encoded[2]

C23_HeaderFormat ==
    \A i \in DOMAIN ret :
        arg.fn = "generate_authorization_header" =>
            /\ Len(ret[i]) = 2
            /\ ret[i][1] = "IYZWSv2 "
            /\ IsBase64(ret[i][2])
            /\ b64decode(ret[i][2])
                   = <<"apiKey:", arg.api_key, "&randomKey:", arg.random_key,
                       "&signature:",
                       Hmac(arg.secret_key,
                            <<arg.random_key, arg.uri_path, arg.request_body>>)>>
            /\ ret[i] = generate_authorization_header(
                            arg.api_key, arg.secret_key, arg.random_key,
                            arg.uri_path, arg.request_body)

\* the example of the docstring
C23_Witness ==
    /\ arg.fn = "generate_authorization_header"
    /\ arg.random_key = "1722246017090123456789"
    /\ arg.uri_path = "/payment/bin/check"
    /\ arg.request_body = "{\"binNumber\":\"589004\"}"
    /\ ret # << >>
    /\ b64decode(ret[1][2])[6]
           = Hmac(arg.secret_key, <<"1722246017090123456789", "/payment/bin/check",
                                    "{\"binNumber\":\"589004\"}">>)

(***************************************************************************)
(* C24: whenever a render reuses the stored value instead of creating a    *)
(* session, the token it places in the payment page URL is the session     *)
(* token the gateway issued in the most recent init of the transaction,    *)
(* never a paymentId that reconciliation wrote into provider_reference.    *)
(***************************************************************************)
C24_ReusedTokenIsSessionToken ==
    (last.op = "render" /\ last.reused) =>
        /\ last.result.url_params["token"] = LatestToken
        /\ last.result.url_params["token"] \notin IssuedPayments

\* after a reconciliation that carried paymentId P1 the reusing render
\* presents P1
C24_Witness ==
    /\ last.op = "render" /\ last.reused
    /\ txs[last.ref].iyzico_3ds_status # None
    /\ last.result.url_params["token"] \in IssuedPayments
    /\ last.trace = << >>

(***************************************************************************)
(* C25: a callback that carries a token the gateway issued is reconciled   *)
(* against the transaction the token was issued for, also after a later    *)
(* render refreshed the token and after an earlier callback for the token  *)
(* was processed: it never ends as transaction_not_found.                  *)
(***************************************************************************)
C25_IssuedTokenFound ==
    (last.op = "callback" /\ last.token \in IssuedTokens) =>
        /\ last.result.redirect # "/payment/status?error=transaction_not_found"
        /\ last.ref \in TxRefs

\* the second callback for T1 finds nothing: the first wrote P1 over T1
C25_Witness ==
    /\ last.op = "callback"
    /\ last.token = "T1"
    /\ issued = 1
    /\ last.result.redirect = "/payment/status?error=transaction_not_found"
    /\ \E ref \in TxRefs : txs[ref].provider_reference = "P1" /\ txs[ref].state = "done"

(***************************************************************************)
(* C26: a callback sets the transaction to done only when a retrieve-result*)
(* response it consumed carries paymentStatus equal to SUCCESS; a response *)
(* without paymentStatus that only reports the API-level status success    *)
(* never moves the transaction to done.                                    *)
(***************************************************************************)
PaymentSucceeded(o) ==
    /\ o.kind = "response"
    /\ "paymentStatus" \in DOMAIN o.data
    /\ upper(o.data["paymentStatus"]) = "SUCCESS"

C26_DoneOnlyOnPaymentSuccess ==
    (/\ last.op = "callback"
     /\ \E i \in DOMAIN last.trace : last.trace[i] = <<"tx", "done">>)
    => \E i \in DOMAIN last.gw : PaymentSucceeded(last.gw[i])

\* both retrieve answers are {status: success} and the transaction is done
C26_Witness ==
    /\ last.op = "callback"
    /\ last.ref \in DOMAIN txs
    /\ txs[last.ref].state = "done"
    /\ last.gw # << >>
    /\ \A i \in DOMAIN last.gw :
           /\ last.gw[i].kind = "response"
           /\ "paymentStatus" \notin DOMAIN last.gw[i].data
           /\ get(last.gw[i].data, "status", None) = "success"

(***************************************************************************)
(* C27: log_api_request with sanitize=True works on a copy: when it        *)
(* returns, the caller's payload is what it was, nested fields such as     *)
(* buyer.identityNumber included.                                          *)
(***************************************************************************)
C27_CallerPayloadUnchanged ==
    last.op = "log_api_request" => last.result = arg.payload

\* the caller's buyer.identityNumber is masked by the call
C27_Witness ==
    /\ last.op = "log_api_request"
    /\ <<"buyer", "identityNumber">> \in DOMAIN arg.payload
    /\ arg.payload[<<"buyer", "identityNumber">>] = "11111111111"
    /\ last.result[<<"buyer", "identityNumber">>] = MASKED
    /\ \A q \in DOMAIN arg.payload \ {<<"buyer", "identityNumber">>} :
           last.result[q] = arg.payload[q]

(***************************************************************************)
(* C28: the refund transaction that _send_refund_request creates is done   *)
(* only if the refund response reported success; when the refund call      *)
(* fails the refund transaction is in error and the error is propagated;   *)
(* when the source transaction has no stored reference the refund is       *)
(* rejected without a gateway call and the refund transaction is not left  *)
(* in a state other than error.                                            *)
(***************************************************************************)
RefundState == txs[last.result.refund].state

RefundAnswered ==
    /\ last.gw # << >>
    /\ last.gw[1].kind = "response"
    /\ get(last.gw[1].data, "status", None) = "success"

C28_RefundOutcome ==
    last.op = "refund" =>
        /\ (RefundState = "done") => (RefundAnswered /\ ~last.result.raised)
        /\ (last.trace # <<<<"tx", "create_refund">>>> /\ ~RefundAnswered) =>
               (RefundState = "error" /\ last.result.raised)
        /\ ~Truthy(txs[last.ref].provider_reference) =>
               /\ last.result.raised
               /\ last.result.http = << >>
               /\ last.gw = << >>
               /\ RefundState = "error"

\* the refund of a transaction without reference is rejected and its refund
\* transaction stays in draft
C28_Witness ==
    /\ last.op = "refund"
    /\ ~Truthy(txs[last.ref].provider_reference)
    /\ last.result.raised
    /\ last.result.http = << >>
    /\ txs[last.result.refund].state = "draft"

(***************************************************************************)
(* C29: when the init call of a render fails (credentials not configured,  *)
(* transport failure, a body that is not JSON, or a business error), the   *)
(* transaction is set to error with the failure message, the rendering     *)
(* values are an empty api_url and that message, and the stored token and  *)
(* its expiry are what they were before the render.                        *)
(***************************************************************************)
InitFailed(l) ==
    /\ l.op = "render"
    /\ \E i \in DOMAIN l.trace : l.trace[i] = <<"init", "raise">>

\* the message each kind of failure is reported with
FailureReported(l) ==
    IF l.gw = << >>
    THEN l.result.error = <<"iyzico API credentials are not configured.">>
    ELSE CASE l.gw[1].kind = "timeout" ->
                l.result.error = <<"iyzico request timed out. Please try again.">>
           [] l.gw[1].kind = "invalid_json" ->
                l.result.error = <<"Invalid response from iyzico. Please try again.">>
           [] l.gw[1].kind = "response" ->
                /\ get(l.gw[1].data, "status", None) # "success"
                /\ l.result.error[1] = "iyzico Error ("
                /\ l.result.error[2] = get(l.gw[1].data, "errorCode", "unknown")
                /\ l.result.error[4] = get(l.gw[1].data, "errorMessage", "Unknown error")
           [] OTHER -> FALSE

C29_InitFailureKeepsSession ==
    [][ InitFailed(last') =>
          /\ txs'[last'.ref].state = "error"
          /\ txs'[last'.ref].state_message = last'.result.error
          /\ DOMAIN last'.result = {"api_url", "error"}
          /\ last'.result.api_url = ""
          /\ FailureReported(last')
          /\ txs'[last'.ref].provider_reference = txs[last'.ref].provider_reference
          /\ txs'[last'.ref].iyzico_token_expire_time
                 = txs[last'.ref].iyzico_token_expire_time ]_vars

\* the refreshing render of a transaction that holds session T1 meets a
\* body that is not JSON
C29_Witness ==
    /\ InitFailed(last)
    /\ last.gw # << >>
    /\ last.gw[1].kind = "invalid_json"
    /\ txs[last.ref].state = "error"
    /\ txs[last.ref].provider_reference = "T1"
    /\ txs[last.ref].iyzico_token_expire_time = {1800}
    /\ last.result.api_url = ""

(***************************************************************************)
(* C30: after any sequence of credential edits and connection tests,       *)
(* iyzico_api_verified is true only if the most recent connection test     *)
(* succeeded and ran with the credentials the provider stores now; a       *)
(* connection test that fails leaves it false.                             *)
(***************************************************************************)
TestedWithStored ==
    /\ ret # << >>
    /\ ret[1].succeeded
    /\ ret[1].iyzico_api_key = provider.iyzico_api_key
    /\ ret[1].iyzico_secret_key = provider.iyzico_secret_key

C30_VerifiedMeansTested ==
    /\ provider.iyzico_api_verified => TestedWithStored
    /\ (last.op = "test_connection" /\ last.result.type # "success") =>
           ~provider.iyzico_api_verified

\* the credentials were edited after a successful test and the provider
\* still counts as verified
C30_Witness ==
    /\ last.op = "edit_credentials"
    /\ provider.iyzico_api_verified
    /\ ret # << >>
    /\ ret[1].succeeded
    /\ ret[1].iyzico_api_key = "ak"
    /\ provider.iyzico_api_key = "ak-old"

====
